---- MODULE Spec2Model ----
(***************************************************************************)
(* Relay scheduling core of the darkroom timer (lib/timer_manager.py,      *)
(* lib/gpio_control.py, lib/temperature_sensor.py).                        *)
(*                                                                         *)
(* The asyncio event loop is modelled as a FIFO ready queue: create_task   *)
(* and Task.cancel append the task to the queue, an expired sleep appends  *)
(* the sleeping task, and the loop runs the head of the queue up to its    *)
(* next await.  Everything between two awaits is one atomic step.          *)
(* Times are milliseconds of time.ticks_ms(); durations are given in       *)
(* tenths of a second.                                                     *)
(***************************************************************************)
EXTENDS Integers, Sequences, FiniteSets, TLC

VARIABLES
    now,                \* time.ticks_ms()
    pins,               \* GPIOController.pins: configured Pin objects
    relay_names,        \* GPIOController.relay_names: pins with a stored name
    pin_value,          \* electrical level of each pin (1 = HIGH, 0 = LOW)
    relay_state,        \* GPIOController.RELAY_PINS[pin]["state"]
    tasks,              \* every exposure task created so far, by task id
    ready,              \* the event loop's ready queue of exposure tasks
    active_timers,      \* TimerManager.active_timers
    task_refs,          \* TimerManager._task_refs
    heating_enabled,    \* TimerManager.heating_enabled
    last_temperature,   \* TimerManager.last_temperature
    target_temperature, \* TimerManager.target_temperature (1/80 degree)
    rom_addresses,      \* TemperatureSensor.rom_addresses is non-empty
    heat_pc,            \* position of the start_heating_control coroutine
    current_version,    \* UpdateManager.current_version
    latest_version,     \* UpdateManager.latest_version
    version_json,       \* the version stored in version.json
    result              \* the last operation and what it returned

vars == <<now, pins, relay_names, pin_value, relay_state, tasks, ready,
          active_timers, task_refs, heating_enabled, last_temperature,
          target_temperature, rom_addresses, heat_pc, current_version,
          latest_version, version_json, result>>

timer_vars == <<tasks, ready, active_timers, task_refs>>
heat_vars == <<heating_enabled, last_temperature, target_temperature,
               rom_addresses, heat_pc>>
update_vars == <<current_version, latest_version, version_json>>

----------------------------------------------------------------------------
(* Bounds of the model *)

MaxStarts == 2                  \* start_timer calls in one behaviour
TimerPins == {14, 15}           \* pins given to start_timer / stop_timer
DelayedPins == {14}             \* pins whose exposures may be scheduled ahead
Durations == {1}                \* duration_sec inputs, in tenths of a second
TickSteps == {100}              \* how far the clock moves between two steps
MaxIdleTicks == 3               \* clock steps taken while no task is waiting
Temps == {1545, 1575, 1600}     \* sensor readings: 19.3125, 19.6875, 20.0
Targets == {1600, 1640}         \* set_target_temperature inputs: 20.0, 20.5
FlakyFiles == {"boot.py", "lib/timer_manager.py"}
                                \* files whose download or commit ends in its
                                \* own way; the others all end alike

----------------------------------------------------------------------------
(* Program constants *)

SYNC_DELAY_MS == 150
HEATING_PIN == 16
HEATING_HYSTERESIS == 40        \* 0.5 degrees, in 1/80 degree
DEFAULT_TARGET == 1600          \* 20.0 degrees, in 1/80 degree
TICKS_PERIOD == 2 ^ 30          \* period of time.ticks_ms()
RELAY_PINS == {14, 15, 16, 17}

None == 0 - 1                   \* Python None in an integer-valued place
StrDuration == 0 - 2            \* a non-numeric duration_sec such as "5"
StrDurationMs == 0 - 3          \* int("5" * 1000): too large to write down
NoTimer == [kind |-> "absent"]  \* pin not in active_timers
NoVersion == << >>              \* no version.json, no release seen yet
ZeroVersion == <<0, 0, 0>>      \* '0.0.0', the fallback of _load_version

InitTick == TICKS_PERIOD - 100      \* ticks_ms() at the first call
InitTicks == {InitTick}

Terminal == {"done", "cancelled", "failed"}

----------------------------------------------------------------------------
(* time.ticks_add / time.ticks_diff *)

ticks_add(t, delta) == (t + delta) % TICKS_PERIOD

ticks_diff(a, b) ==
    ((a - b + TICKS_PERIOD \div 2) % TICKS_PERIOD) - TICKS_PERIOD \div 2

get_current_time_ms == now

\* a start time without the synchronisation delay
calculate_start_at_no_delay == get_current_time_ms

calculate_start_at == ticks_add(get_current_time_ms, SYNC_DELAY_MS)

\* the durations, in tenths of a second, whose product with 1000 is a whole
\* number of milliseconds in float arithmetic of either width: beyond them the
\* product can fall just short and int() drops a millisecond (16.3 s gives
\* 16299 in single precision, 32.3 s gives 32299 in double precision)
ExactTenths == 0..162

\* int(duration_sec * 1000), for the durations where the product is exact
duration_ms(d) ==
    CASE d = StrDuration -> StrDurationMs
      [] d \in ExactTenths -> d * 100

\* asyncio.sleep(duration_sec) raises TypeError for a non-numeric argument
sleep_raises(d) == d = StrDuration

----------------------------------------------------------------------------
(* The part of the state the synchronous calls work on.  fault is the set   *)
(* of pins whose Pin.value() write raises during the call.                 *)

Cur == [tasks |-> tasks, ready |-> ready, active_timers |-> active_timers,
        task_refs |-> task_refs, relay_state |-> relay_state,
        pin_value |-> pin_value, fault |-> {}, ret |-> FALSE]

InQueue(q, t) == \E i \in 1..Len(q) : q[i] = t

\* set_relay_state that reports success for a pin it has no Pin object for
set_relay_state_unchecked(m, gpio_pin, state) ==
    IF gpio_pin \notin pins \/ gpio_pin \in m.fault
    THEN [m EXCEPT !.ret = TRUE]
    ELSE [m EXCEPT !.pin_value[gpio_pin] = IF state THEN 0 ELSE 1,
                   !.relay_state[gpio_pin] = state,
                   !.ret = TRUE]

\* GPIOController.set_relay_state.  An exception of the pin write is caught
\* before anything changed; a missing relay name raises after the write and
\* the state update, in the status message.
set_relay_state(m, gpio_pin, state) ==
    IF gpio_pin \notin pins \/ gpio_pin \in m.fault
    THEN [m EXCEPT !.ret = FALSE]
    ELSE [m EXCEPT !.pin_value[gpio_pin] = IF state THEN 0 ELSE 1,
                   !.relay_state[gpio_pin] = state,
                   !.ret = gpio_pin \in relay_names]

\* GPIOController.get_relay_state
get_relay_state(gpio_pin) ==
    IF gpio_pin \notin RELAY_PINS THEN None ELSE relay_state[gpio_pin]

\* Task.cancel(): no effect on a finished task; otherwise CancelledError is
\* thrown into the task when the loop next runs it, and the task is woken.
cancel(m, t) ==
    IF m.tasks[t].pc \in Terminal
    THEN m
    ELSE [m EXCEPT !.tasks[t].cancel = TRUE,
                   !.ready = IF InQueue(@, t) THEN @ ELSE Append(@, t)]

\* stop_timer that forgets to cancel the task it removes
stop_timer_keeps_task(m, pin) ==
    IF m.active_timers[pin] = NoTimer /\ m.task_refs[pin] = None
    THEN [m EXCEPT !.ret = FALSE]
    ELSE [set_relay_state([m EXCEPT !.task_refs[pin] = None,
                                    !.active_timers[pin] = NoTimer],
                          pin, FALSE)
          EXCEPT !.ret = TRUE]

\* stop_timer without the final relay OFF write
stop_timer_no_off(m, pin) ==
    IF m.active_timers[pin] = NoTimer /\ m.task_refs[pin] = None
    THEN [m EXCEPT !.ret = FALSE]
    ELSE
      LET m1 == IF m.task_refs[pin] # None
                THEN [cancel(m, m.task_refs[pin]) EXCEPT !.task_refs[pin] = None]
                ELSE m
      IN [m1 EXCEPT !.active_timers[pin] = NoTimer, !.ret = TRUE]

\* stop_timer that reports success whatever it found
stop_timer_always_true(m, pin) ==
    IF m.active_timers[pin] = NoTimer /\ m.task_refs[pin] = None
    THEN [m EXCEPT !.ret = TRUE]
    ELSE
      LET m1 == IF m.task_refs[pin] # None
                THEN [cancel(m, m.task_refs[pin]) EXCEPT !.task_refs[pin] = None]
                ELSE m
          m3 == set_relay_state([m1 EXCEPT !.active_timers[pin] = NoTimer],
                                pin, FALSE)
      IN [m3 EXCEPT !.ret = TRUE]

\* stop_timer that leaves the record of the pin in active_timers
stop_timer_keeps_record(m, pin) ==
    IF m.active_timers[pin] = NoTimer /\ m.task_refs[pin] = None
    THEN [m EXCEPT !.ret = FALSE]
    ELSE
      LET m1 == IF m.task_refs[pin] # None
                THEN [cancel(m, m.task_refs[pin]) EXCEPT !.task_refs[pin] = None]
                ELSE m
      IN [set_relay_state(m1, pin, FALSE) EXCEPT !.ret = TRUE]

\* TimerManager.stop_timer
stop_timer(m, pin) ==
    IF m.active_timers[pin] = NoTimer /\ m.task_refs[pin] = None
    THEN [m EXCEPT !.ret = FALSE]
    ELSE
      LET m1 == IF m.task_refs[pin] # None
                THEN [cancel(m, m.task_refs[pin]) EXCEPT !.task_refs[pin] = None]
                ELSE m
          info == m1.active_timers[pin]
          m2 == IF info # NoTimer
                THEN [(IF info.kind = "scheduled" /\ info.task # None
                       THEN cancel(m1, info.task) ELSE m1)
                      EXCEPT !.active_timers[pin] = NoTimer]
                ELSE m1
          m3 == set_relay_state(m2, pin, FALSE)
      IN [m3 EXCEPT !.ret = TRUE]

NewTask(pin, d, start_at_ms, prev) ==
    [pin |-> pin, dur |-> d, start_at |-> start_at_ms, pc |-> "created",
     cancel |-> FALSE, wake |-> None, on_at |-> None, prev |-> prev]

\* a task that has ended: only how it ended is kept
Ended(tk, how) ==
    [pin |-> tk.pin, dur |-> None, start_at |-> None, pc |-> how,
     cancel |-> FALSE, wake |-> None, on_at |-> None, prev |-> None]

\* TimerManager.start_timer
start_timer(m, pin, d, scheduled) ==
    LET m1 == stop_timer(m, pin)
        start_at_ms == IF scheduled THEN calculate_start_at ELSE None
        task == Len(m1.tasks) + 1
        old == m.task_refs[pin]
        prev == IF old # None /\ m.tasks[old].pc \notin Terminal
                   /\ ~m.tasks[old].cancel
                THEN old ELSE None
    IN [m1 EXCEPT
          !.tasks = Append(@, NewTask(pin, d, start_at_ms, prev)),
          !.ready = Append(@, task),
          !.task_refs[pin] = task,
          !.active_timers[pin] =
              [kind |-> "scheduled", task |-> task, start_at |-> start_at_ms,
               duration_ms |-> duration_ms(d), running |-> FALSE],
          !.ret = [pin |-> pin, duration |-> d, start_at |-> start_at_ms,
                   sync_delay_ms |-> SYNC_DELAY_MS]]

\* the pins stop_all_timers collects from active_timers and _task_refs
timer_pins(m) ==
    {p \in RELAY_PINS : m.active_timers[p] # NoTimer \/ m.task_refs[p] # None}

\* the orders in which "for pin in set(pins)" may visit the pins: the
\* iteration order of a set is the implementation's choice
Orders(ps) ==
    {o \in [1..Cardinality(ps) -> ps] :
        \A i, j \in 1..Cardinality(ps) : i # j => o[i] # o[j]}

\* the loop of stop_all_timers, visiting the pins in the given order
RECURSIVE stop_each(_, _)
stop_each(m, order) ==
    IF order = << >> THEN m
    ELSE stop_each(stop_timer(m, Head(order)), Tail(order))

\* stop_all_timers that collects its pins from active_timers only
stop_all_timers_active_only(m, order) ==
    [stop_each(m, SelectSeq(order, LAMBDA p : m.active_timers[p] # NoTimer))
        EXCEPT !.ret = FALSE]

\* TimerManager.stop_all_timers, its set of pins visited in the given
\* order.  self.heating_task is set to None in __init__ and assigned nowhere
\* else, so the heating branch is never taken.
stop_all_timers(m, order) == [stop_each(m, order) EXCEPT !.ret = FALSE]

\* a cleanup that reports success without writing any pin
gpio_cleanup_no_write(m) == [m EXCEPT !.ret = TRUE]

\* the configured pins GPIOController.cleanup reaches: all of them, or those
\* before the first pin whose write raises (one try block around the loop)
cleanup_reached(m) ==
    {p \in pins : \A q \in pins \cap m.fault : p < q}

\* GPIOController.cleanup: every pin it reaches HIGH, its state False
gpio_cleanup(m) ==
    [m EXCEPT !.pin_value = [p \in RELAY_PINS |->
                                IF p \in cleanup_reached(m) THEN 1 ELSE @[p]],
              !.relay_state = [p \in RELAY_PINS |->
                                IF p \in cleanup_reached(m) THEN FALSE
                                ELSE @[p]],
              !.ret = (pins \cap m.fault = {})]

\* DarkroomTimer.cleanup: stop_all_timers, then GPIOController.cleanup
\* (stopping the HTTP server and the WiFi in between touches no relay)
darkroom_cleanup(m, order) == gpio_cleanup(stop_all_timers(m, order))

NoStatus == [kind |-> "none"]   \* get_timer_status returns None

\* get_timer_status with the elapsed time computed by plain subtraction
get_timer_status_plain(pin) ==
    IF active_timers[pin] = NoTimer
    THEN NoStatus
    ELSE LET info == active_timers[pin] IN
         IF info.kind = "running" /\ info.running
         THEN LET elapsed_ms == get_current_time_ms - info.start_time
                  left == info.duration_ms - elapsed_ms
              IN [kind |-> "running", pin |-> pin, running |-> TRUE,
                  elapsed_ms |-> elapsed_ms,
                  remaining_ms |-> IF left > 0 THEN left ELSE 0,
                  duration_ms |-> info.duration_ms]
         ELSE [kind |-> "scheduled", pin |-> pin, running |-> FALSE,
               scheduled |-> TRUE, start_at |-> info.start_at,
               duration_ms |-> info.duration_ms]

\* TimerManager.get_timer_status
get_timer_status(pin) ==
    IF active_timers[pin] = NoTimer
    THEN NoStatus
    ELSE LET info == active_timers[pin] IN
         IF info.kind = "running" /\ info.running
         THEN LET elapsed_ms == ticks_diff(get_current_time_ms, info.start_time)
                  left == info.duration_ms - elapsed_ms
              IN [kind |-> "running", pin |-> pin, running |-> TRUE,
                  elapsed_ms |-> elapsed_ms,
                  remaining_ms |-> IF left > 0 THEN left ELSE 0,
                  duration_ms |-> info.duration_ms]
         ELSE [kind |-> "scheduled", pin |-> pin, running |-> FALSE,
               scheduled |-> TRUE, start_at |-> info.start_at,
               duration_ms |-> info.duration_ms]

----------------------------------------------------------------------------
(* TimerManager._timer_task, one step of task t from one await to the next *)

\* a finally block that clears the bookkeeping of every pin
cleanup_all_pins(m, t) ==
    [m EXCEPT !.active_timers = [p \in RELAY_PINS |-> NoTimer],
              !.task_refs = [p \in RELAY_PINS |-> None]]

\* a finally block that drops the pin's task reference whoever owns it
cleanup_any_ref(m, t) ==
    [m EXCEPT !.active_timers[m.tasks[t].pin] = NoTimer,
              !.task_refs[m.tasks[t].pin] = None]

\* the finally block
cleanup(m, t) ==
    LET pin == m.tasks[t].pin
        m1 == [m EXCEPT !.active_timers[pin] = NoTimer]
    IN IF m1.task_refs[pin] # None /\ m1.task_refs[pin] = t
       THEN [m1 EXCEPT !.task_refs[pin] = None]
       ELSE m1

\* a cancellation handler that re-raises without the relay OFF write
on_cancelled_no_off(m, t) ==
    [cleanup(m, t) EXCEPT !.tasks[t] = Ended(@, "cancelled")]

\* except asyncio.CancelledError: relay OFF, re-raise, then the finally block
on_cancelled(m, t) ==
    LET m1 == set_relay_state(m, m.tasks[t].pin, FALSE)
    IN [cleanup(m1, t) EXCEPT !.tasks[t] = Ended(@, "cancelled")]

\* record the start time, relay ON, await asyncio.sleep(duration_sec)
begin_exposure(m, t) ==
    LET pin == m.tasks[t].pin
        d == m.tasks[t].dur
        m1 == [m EXCEPT !.active_timers[pin] =
                   [kind |-> "running", start_time |-> get_current_time_ms,
                    duration_ms |-> duration_ms(d), running |-> TRUE],
                 !.tasks[t].on_at = get_current_time_ms]
        m2 == set_relay_state(m1, pin, TRUE)
    IN IF sleep_raises(d)
       THEN [cleanup(m2, t) EXCEPT !.tasks[t] = Ended(@, "failed")]
       ELSE [m2 EXCEPT !.tasks[t].pc = "exposing",
                       !.tasks[t].wake =
                           ticks_add(get_current_time_ms, duration_ms(d))]

\* the remaining wait computed by plain subtraction
wait_ms_plain(start_at_ms) == start_at_ms - get_current_time_ms

\* wait_ms = time.ticks_diff(start_at_ms, now)
wait_ms(start_at_ms) == ticks_diff(start_at_ms, get_current_time_ms)

\* the end of the exposure without the finally block
end_exposure_keeps_entries(m, t) ==
    [set_relay_state(m, m.tasks[t].pin, FALSE)
        EXCEPT !.tasks[t] = Ended(@, "done")]

\* an end of the exposure that a rejected relay write aborts: the task ends
\* and its entries stay
end_exposure_aborts_on_fault(m, t) ==
    LET m1 == set_relay_state(m, m.tasks[t].pin, FALSE)
    IN IF m1.ret
       THEN [cleanup(m1, t) EXCEPT !.tasks[t] = Ended(@, "done")]
       ELSE [m1 EXCEPT !.tasks[t] = Ended(@, "failed")]

\* relay OFF after the duration, then the finally block
end_exposure(m, t) ==
    LET m1 == set_relay_state(m, m.tasks[t].pin, FALSE)
    IN [cleanup(m1, t) EXCEPT !.tasks[t] = Ended(@, "done")]

\* a task body that does not notice a requested cancellation
timer_task_ignores_cancel(m, t) ==
    LET tk == m.tasks[t] IN
    CASE tk.pc = "created" ->
            IF tk.start_at # None /\ wait_ms(tk.start_at) > 0
            THEN [m EXCEPT !.tasks[t].pc = "wait_start",
                           !.tasks[t].wake =
                               ticks_add(get_current_time_ms,
                                         wait_ms(tk.start_at))]
            ELSE begin_exposure(m, t)
      [] tk.pc = "wait_start" -> begin_exposure(m, t)
      [] tk.pc = "exposing" -> end_exposure(m, t)
      [] OTHER -> m

timer_task(m, t) ==
    LET tk == m.tasks[t] IN
    CASE tk.pc = "created" /\ tk.cancel ->
            \* CancelledError thrown into a coroutine that has not started:
            \* the try block is never entered
            [m EXCEPT !.tasks[t] = Ended(@, "cancelled")]
      [] tk.pc = "created" /\ ~tk.cancel ->
            IF tk.start_at # None /\ wait_ms(tk.start_at) > 0
            THEN [m EXCEPT !.tasks[t].pc = "wait_start",
                           !.tasks[t].wake =
                               ticks_add(get_current_time_ms,
                                         wait_ms(tk.start_at))]
            ELSE begin_exposure(m, t)
      [] tk.pc = "wait_start" ->
            IF tk.cancel THEN on_cancelled(m, t) ELSE begin_exposure(m, t)
      [] tk.pc = "exposing" ->
            IF tk.cancel THEN on_cancelled(m, t) ELSE end_exposure(m, t)
      [] OTHER -> m

----------------------------------------------------------------------------
(* Initial state: TimerManager.__init__ on an initialized GPIOController *)

\* what the last operation was: its name, its pin, the boolean and the
\* number it returned or was given, and the relay state it found
Res(op, pin, ok, val, before) ==
    [op |-> op, pin |-> pin, ok |-> ok, val |-> val, before |-> before,
     duration |-> None, sync_delay_ms |-> None, wrote |-> FALSE]

Init ==
    /\ now \in InitTicks
    /\ pins = RELAY_PINS
    /\ relay_names = RELAY_PINS
    /\ pin_value = [p \in RELAY_PINS |-> 1]
    /\ relay_state = [p \in RELAY_PINS |-> FALSE]
    /\ tasks = << >>
    /\ ready = << >>
    /\ active_timers = [p \in RELAY_PINS |-> NoTimer]
    /\ task_refs = [p \in RELAY_PINS |-> None]
    /\ heating_enabled = FALSE
    /\ last_temperature = None
    /\ target_temperature = DEFAULT_TARGET
    /\ rom_addresses \in BOOLEAN
    /\ heat_pc = "start"
    /\ current_version = ZeroVersion
    /\ latest_version = NoVersion
    /\ version_json = NoVersion
    /\ result = Res("init", None, FALSE, None, FALSE)

Commit(m) ==
    /\ tasks' = m.tasks
    /\ ready' = m.ready
    /\ active_timers' = m.active_timers
    /\ task_refs' = m.task_refs
    /\ relay_state' = m.relay_state
    /\ pin_value' = m.pin_value

----------------------------------------------------------------------------
(* Actions of the exposure scheduler *)

Sleeping(t) == tasks[t].pc \in {"wait_start", "exposing"}

Live(t) == tasks[t].pc \notin Terminal /\ ~tasks[t].cancel

\* the tick a task that is still to act is waiting for
Deadline(t) ==
    IF tasks[t].pc = "created" THEN tasks[t].start_at ELSE tasks[t].wake

\* time passes: always while some task still waits for a moment in the
\* future, and for MaxIdleTicks steps of the clock whatever the tasks do
Tick ==
    /\ \/ \E t \in 1..Len(tasks) :
             Live(t) /\ Deadline(t) # None /\ ticks_diff(Deadline(t), now) > 0
       \/ ticks_diff(now, InitTick) < MaxIdleTicks * 100
    /\ \E d \in TickSteps : now' = ticks_add(now, d)
    /\ result' = Res("loop", None, FALSE, None, FALSE)
    /\ UNCHANGED <<pins, relay_names, pin_value, relay_state, timer_vars,
                   heat_vars,
                   update_vars>>

\* the sleep of task t has expired: the loop puts the task on the ready queue
TimerDue(t) ==
    /\ t \in 1..Len(tasks)
    /\ Sleeping(t)
    /\ ~InQueue(ready, t)
    /\ ticks_diff(tasks[t].wake, now) <= 0
    /\ ready' = Append(ready, t)
    /\ result' = Res("loop", None, FALSE, None, FALSE)
    /\ UNCHANGED <<now, pins, relay_names, pin_value, relay_state, tasks,
                   active_timers, task_refs, heat_vars,
                   update_vars>>

\* the loop runs the task at the head of the ready queue up to its next await
RunNext ==
    /\ ready # << >>
    /\ LET t == Head(ready)
           m == timer_task([Cur EXCEPT !.ready = Tail(ready)], t)
       IN /\ Commit(m)
          /\ result' = Res("task", tasks[t].pin, FALSE, t, FALSE)
    /\ UNCHANGED <<now, pins, relay_names, heat_vars,
                   update_vars>>

StartTimer(pin, d, scheduled) ==
    /\ Len(tasks) < MaxStarts
    /\ LET m == start_timer(Cur, pin, d, scheduled)
       IN /\ Commit(m)
          /\ result' = [Res("start_timer", pin, scheduled, m.ret.start_at,
                              FALSE)
                           EXCEPT !.duration = m.ret.duration,
                                  !.sync_delay_ms = m.ret.sync_delay_ms]
    /\ UNCHANGED <<now, pins, relay_names, heat_vars,
                   update_vars>>

StopTimer(pin) ==
    /\ LET m == stop_timer(Cur, pin)
       IN /\ Commit(m)
          /\ result' = Res("stop_timer", pin, m.ret, None, FALSE)
    /\ UNCHANGED <<now, pins, relay_names, heat_vars,
                   update_vars>>

Next ==
    \/ Tick
    \/ \E t \in 1..MaxStarts : TimerDue(t)
    \/ RunNext
    \/ \E pin \in TimerPins, d \in Durations \cup {StrDuration},
          scheduled \in BOOLEAN :
             /\ scheduled => pin \in DelayedPins
             /\ StartTimer(pin, d, scheduled)
    \/ \E pin \in TimerPins : StopTimer(pin)

Spec == Init /\ [][Next]_vars

\* The event loop keeps running: the clock advances, expired sleeps are
\* noticed and the task at the head of the ready queue is run.
LivePins == {14}                \* pins used when progress is checked

LiveNext ==
    \/ Tick
    \/ \E t \in 1..MaxStarts : TimerDue(t)
    \/ RunNext
    \/ \E pin \in LivePins, d \in Durations \cup {StrDuration},
          scheduled \in BOOLEAN : StartTimer(pin, d, scheduled)
    \/ \E pin \in LivePins : StopTimer(pin)

LiveSpec ==
    /\ Init /\ [][LiveNext]_vars
    /\ WF_vars(Tick)
    /\ WF_vars(RunNext)
    /\ \A t \in 1..MaxStarts : WF_vars(TimerDue(t))

----------------------------------------------------------------------------
(* The heating controller: set_heating_enabled, set_target_temperature and *)
(* the start_heating_control loop, one step from one await to the next.    *)
(* Temperatures are counted in 1/80 degree, the unit that holds both the    *)
(* readings of the sensor, whole sixteenths of a degree, and targets given *)
(* in tenths: 1/16 degree is 5, 1/10 degree is 8.  A failed read is None.  *)

HeatCur == [relay_state |-> relay_state, pin_value |-> pin_value,
            fault |-> {},
            heating_enabled |-> heating_enabled,
            last_temperature |-> last_temperature,
            heat_pc |-> heat_pc, ret |-> FALSE]

\* set_heating_enabled that only stores the flag
set_heating_enabled_flag_only(m, enabled) ==
    [m EXCEPT !.heating_enabled = enabled,
              !.last_temperature = IF enabled THEN @ ELSE None]

\* TimerManager.set_heating_enabled
set_heating_enabled(m, enabled) ==
    LET m1 == [m EXCEPT !.heating_enabled = enabled]
    IN IF ~enabled
       THEN [set_relay_state(m1, HEATING_PIN, FALSE)
                EXCEPT !.last_temperature = None]
       ELSE m1

\* temp < (self.target_temperature - self.heating_hysteresis) raises
\* TypeError when an operand is None
compare_raises(temp) == temp = None \/ target_temperature = None

\* except Exception: the error is printed, the relay is switched OFF and
\* the coroutine returns
on_exception(m) ==
    [set_relay_state(m, HEATING_PIN, FALSE) EXCEPT !.heat_pc = "exited"]

\* await asyncio.sleep(15) at the end of an iteration
poll_wait(m) ==
    IF m.heat_pc = "exited" THEN m ELSE [m EXCEPT !.heat_pc = "sleep15"]

\* a loop body without the test for a failed read
apply_reading_no_none_guard(m, temp) ==
    LET m1 == [m EXCEPT !.last_temperature = temp]
        current_relay_state == m.relay_state[HEATING_PIN]
    IN IF compare_raises(temp)
       THEN on_exception(m1)
       ELSE IF temp < target_temperature - HEATING_HYSTERESIS
            THEN IF ~current_relay_state
                 THEN set_relay_state(m1, HEATING_PIN, TRUE) ELSE m1
            ELSE IF temp >= target_temperature
                 THEN IF current_relay_state
                      THEN set_relay_state(m1, HEATING_PIN, FALSE) ELSE m1
                 ELSE m1

\* a loop body that leaves the relay alone when the read failed
apply_reading_keeps_relay(m, temp) ==
    LET m1 == [m EXCEPT !.last_temperature = temp]
        current_relay_state == m.relay_state[HEATING_PIN]
    IN IF temp = None
       THEN m1
       ELSE IF temp < target_temperature - HEATING_HYSTERESIS
            THEN IF ~current_relay_state
                 THEN set_relay_state(m1, HEATING_PIN, TRUE) ELSE m1
            ELSE IF temp >= target_temperature
                 THEN IF current_relay_state
                      THEN set_relay_state(m1, HEATING_PIN, FALSE) ELSE m1
                 ELSE m1

\* a loop body that switches ON as soon as the reading is below the target
apply_reading_no_deadband(m, temp) ==
    LET m1 == [m EXCEPT !.last_temperature = temp]
        current_relay_state == m.relay_state[HEATING_PIN]
    IN IF temp = None
       THEN set_relay_state(m1, HEATING_PIN, FALSE)
       ELSE IF temp < target_temperature
            THEN IF ~current_relay_state
                 THEN set_relay_state(m1, HEATING_PIN, TRUE) ELSE m1
            ELSE IF current_relay_state
                 THEN set_relay_state(m1, HEATING_PIN, FALSE) ELSE m1

\* the loop body after read_temperature_async has returned temp.  The code
\* compares floats: the target is the nearest float to the decimal it was
\* given as, target - 0.5 is computed without rounding, and a reading that
\* is a whole number of sixteenths is held exactly, so that the outcome is
\* that of the exact comparison.  For other readings the rounding of the
\* float width decides, and the operator is not defined.
apply_reading(m, temp) ==
    LET m1 == [m EXCEPT !.last_temperature = temp]
        current_relay_state == m.relay_state[HEATING_PIN]
    IN IF temp = None
       THEN set_relay_state(m1, HEATING_PIN, FALSE)
       ELSE IF compare_raises(temp)
       THEN on_exception(m1)
       ELSE CASE temp % 5 = 0 ->
            IF temp < target_temperature - HEATING_HYSTERESIS
            THEN IF ~current_relay_state
                 THEN set_relay_state(m1, HEATING_PIN, TRUE) ELSE m1
            ELSE IF temp >= target_temperature
                 THEN IF current_relay_state
                      THEN set_relay_state(m1, HEATING_PIN, FALSE) ELSE m1
                 ELSE m1

\* a loop that reads the sensor whether or not heating is enabled
heating_loop_top_ignores_flag(m, started) ==
    IF ~rom_addresses \/ ~started
    THEN poll_wait(apply_reading(m, None))
    ELSE [m EXCEPT !.heat_pc = "convert"]

\* top of the while loop, up to the next await.  started is whether
\* convert_temp() succeeded; without devices on the bus, or when it raises,
\* read_temperature_async returns None without suspending.
heating_loop_top(m, started) ==
    IF ~m.heating_enabled
    THEN [m EXCEPT !.heat_pc = "sleep1"]
    ELSE IF ~rom_addresses \/ ~started
         THEN poll_wait(apply_reading(m, None))
         ELSE [m EXCEPT !.heat_pc = "convert"]

HeatCommit(m) ==
    /\ relay_state' = m.relay_state
    /\ pin_value' = m.pin_value
    /\ heating_enabled' = m.heating_enabled
    /\ last_temperature' = m.last_temperature
    /\ heat_pc' = m.heat_pc

SetHeatingEnabled(enabled) ==
    /\ HeatCommit(set_heating_enabled(HeatCur, enabled))
    /\ result' = Res("set_heating_enabled", HEATING_PIN, enabled, None,
                      relay_state[HEATING_PIN])
    /\ UNCHANGED <<now, pins, relay_names, timer_vars,
                   update_vars, target_temperature,
                   rom_addresses>>

SetTargetTemperature(target_celsius) ==
    /\ target_temperature' = target_celsius
    /\ result' = Res("set_target_temperature", HEATING_PIN, FALSE,
                      target_celsius, FALSE)
    /\ UNCHANGED <<now, pins, relay_names, pin_value, relay_state,
                   timer_vars,
                   update_vars, heating_enabled, last_temperature,
                   rom_addresses, heat_pc>>

\* the loop starts, or wakes from asyncio.sleep(1) / asyncio.sleep(15)
HeatRun ==
    /\ heat_pc \in {"start", "sleep1", "sleep15"}
    /\ \E started \in BOOLEAN :
          LET m == heating_loop_top(HeatCur, started)
          IN /\ HeatCommit(m)
             /\ result' =
                  [Res(IF m.heat_pc \in {"sleep15", "exited"} THEN "heat_read"
                       ELSE "heat_loop",
                       HEATING_PIN, FALSE, None, relay_state[HEATING_PIN])
                      EXCEPT !.wrote = m.ret]
    /\ UNCHANGED <<now, pins, relay_names, timer_vars,
                   update_vars, target_temperature,
                   rom_addresses>>

\* the conversion wait is over: read_temp() delivers a reading or raises
HeatReadDone ==
    /\ heat_pc = "convert"
    /\ \E temp \in Temps \cup {None} :
          LET m == poll_wait(apply_reading(HeatCur, temp))
          IN /\ HeatCommit(m)
             /\ result' = [Res("heat_read", HEATING_PIN, temp # None, temp,
                                relay_state[HEATING_PIN])
                               EXCEPT !.wrote = m.ret]
    /\ UNCHANGED <<now, pins, relay_names, timer_vars,
                   update_vars, target_temperature,
                   rom_addresses>>

HeatNext ==
    \/ \E enabled \in BOOLEAN : SetHeatingEnabled(enabled)
    \/ \E target_celsius \in Targets : SetTargetTemperature(target_celsius)
    \/ HeatRun
    \/ HeatReadDone

HeatSpec == Init /\ [][HeatNext]_vars

\* The event loop keeps running the heating task: it wakes from its sleeps
\* and the conversion wait ends.
HeatLiveSpec ==
    /\ Init /\ [][HeatNext]_vars
    /\ WF_vars(HeatRun)
    /\ WF_vars(HeatReadDone)

\* where the coroutine stands once Task.cancel() was called on it
CancelPc == [start |-> "cancel_start", sleep1 |-> "cancel_sleep1",
             sleep15 |-> "cancel_sleep15", convert |-> "cancel_convert"]

\* a cancellation handler that re-raises without the relay OFF write
heating_on_cancelled_no_off(m) == [m EXCEPT !.heat_pc = "cancelled"]

\* except asyncio.CancelledError: relay OFF, re-raise
heating_on_cancelled(m) ==
    [set_relay_state(m, HEATING_PIN, FALSE) EXCEPT !.heat_pc = "cancelled"]

\* Task.cancel() on the heating task while it is suspended or not yet started
HeatCancel ==
    /\ heat_pc \in {"start", "sleep1", "sleep15", "convert"}
    /\ heat_pc' = CancelPc[heat_pc]
    /\ result' = Res("heat_cancel", HEATING_PIN, FALSE, None,
                      relay_state[HEATING_PIN])
    /\ UNCHANGED <<now, pins, relay_names, pin_value, relay_state,
                   timer_vars,
                   update_vars, heating_enabled, last_temperature,
                   target_temperature, rom_addresses>>

\* the loop runs the cancelled task: CancelledError is raised at its await
\* (inside read_temperature_async it passes the `except Exception`), or,
\* for a task that never ran, ends it before the try block is entered
HeatThrow ==
    /\ heat_pc \in {"cancel_start", "cancel_sleep1", "cancel_sleep15",
                    "cancel_convert"}
    /\ LET m == IF heat_pc = "cancel_start"
                THEN [HeatCur EXCEPT !.heat_pc = "cancelled"]
                ELSE heating_on_cancelled(HeatCur)
       IN /\ HeatCommit(m)
          /\ result' = [Res("heat_cancelled", HEATING_PIN,
                             heat_pc # "cancel_start", None,
                             relay_state[HEATING_PIN])
                           EXCEPT !.wrote = m.ret]
    /\ UNCHANGED <<now, pins, relay_names, timer_vars,
                   update_vars, target_temperature,
                   rom_addresses>>

HeatCancelNext ==
    \/ HeatNext
    \/ HeatCancel
    \/ HeatThrow

HeatCancelSpec == Init /\ [][HeatCancelNext]_vars

----------------------------------------------------------------------------
(* stop_all_timers, direct relay writes and shutdown *)

\* self.heating_task: set to None in __init__ and assigned nowhere else;
\* boot keeps no reference to the task it creates for the heating loop
heating_task == None

\* TimerManager.stop_all_timers: the timers, then `if self.heating_task:`
StopAllTimers ==
    /\ \E order \in Orders(timer_pins(Cur)) :
          Commit(stop_all_timers(Cur, order))
    /\ heat_pc' = IF heating_task # None /\ heat_pc \in DOMAIN CancelPc
                  THEN CancelPc[heat_pc]
                  ELSE heat_pc
    /\ result' = Res("stop_all_timers", None, FALSE, None, FALSE)
    /\ UNCHANGED <<now, pins, relay_names, heating_enabled,
                   last_temperature, target_temperature, rom_addresses,
                   update_vars>>

StopAllNext ==
    \/ Next
    \/ StopAllTimers

StopAllSpec == Init /\ [][StopAllNext]_vars

\* the class of the object HTTPServer holds as self.gpio: boot.py imports
\* GPIOControl, which lib/gpio_control.py does not define; the class it does
\* define, GPIOController, has no is_valid_pin
GpioClasses == {"GPIOControl", "GPIOController"}

\* HTTPServer._handle_relay up to its first await, for a state of 'on' or
\* 'off'.  On a GPIOController self.gpio.is_valid_pin raises AttributeError
\* before anything is written.  Otherwise a pin outside the valid pins
\* (14, 15, 16, 17 in the error message) is answered with 400; for a valid
\* pin the relay is written, and for state = off stop_timer follows in the
\* same step; its return value is dropped, success is the one of the write
handle_relay(m, gpio, state, gpio_class) ==
    LET m1 == set_relay_state(m, gpio, state)
        m2 == IF ~state THEN stop_timer(m1, gpio) ELSE m1
    IN IF gpio_class = "GPIOController" \/ gpio \notin RELAY_PINS
       THEN [m EXCEPT !.ret = FALSE]
       ELSE [m2 EXCEPT !.ret = m1.ret]

HandleRelay(gpio, state, gpio_class) ==
    /\ LET m == handle_relay(Cur, gpio, state, gpio_class)
       IN /\ Commit(m)
          /\ result' = Res(IF gpio_class = "GPIOController"
                           THEN "relay_error" ELSE "relay",
                           gpio, m.ret, None, state)
    /\ UNCHANGED <<now, pins, relay_names, heat_vars,
                   update_vars>>

\* the /relay endpoint, with the exposures of one pin
RelayNext ==
    \/ LiveNext
    \/ \E gpio \in LivePins, state \in BOOLEAN, gpio_class \in GpioClasses :
          HandleRelay(gpio, state, gpio_class)

RelaySpec == Init /\ [][RelayNext]_vars

\* DarkroomTimer.cleanup, in the finally block of DarkroomTimer.run
Cleanup ==
    /\ \E order \in Orders(timer_pins(Cur)) :
          Commit(darkroom_cleanup(Cur, order))
    /\ result' = Res("cleanup", None, TRUE, None, relay_state[HEATING_PIN])
    /\ UNCHANGED <<now, pins, relay_names, heat_vars,
                   update_vars>>

\* Exposures on one pin, the heating loop, and the shutdown that ends the
\* program: after DarkroomTimer.cleanup the event loop runs nothing more.
ShutdownNext ==
    /\ result.op # "cleanup"
    /\ \/ Tick
       \/ \E t \in 1..MaxStarts : TimerDue(t)
       \/ RunNext
       \/ \E pin \in LivePins, d \in Durations \cup {StrDuration},
             scheduled \in BOOLEAN : StartTimer(pin, d, scheduled)
       \/ \E enabled \in BOOLEAN : SetHeatingEnabled(enabled)
       \/ HeatRun
       \/ HeatReadDone
       \/ Cleanup

ShutdownSpec == Init /\ [][ShutdownNext]_vars

\* the loop runs the task at the head of the ready queue while every write
\* to the pin of that task raises inside set_relay_state
RunNextFaulty ==
    /\ ready # << >>
    /\ LET t == Head(ready)
           m == timer_task([Cur EXCEPT !.ready = Tail(ready),
                                       !.fault = {tasks[t].pin}], t)
       IN /\ Commit(m)
          /\ result' = Res("task_fault", tasks[t].pin, FALSE, t, FALSE)
    /\ UNCHANGED <<now, pins, relay_names, heat_vars,
                   update_vars>>

FaultNext ==
    \/ LiveNext
    \/ RunNextFaulty

\* the loop keeps running the ready queue, with working or failing writes
FaultSpec ==
    /\ Init /\ [][FaultNext]_vars
    /\ WF_vars(Tick)
    /\ WF_vars(RunNext \/ RunNextFaulty)
    /\ \A t \in 1..MaxStarts : WF_vars(TimerDue(t))

\* stop_timer(pin) called again directly after a stop_timer(pin) returned
StopTimerAgain(pin) ==
    /\ result.op \in {"stop_timer", "stop_again"}
    /\ result.pin = pin
    /\ LET m == stop_timer(Cur, pin)
       IN /\ Commit(m)
          /\ result' = Res("stop_again", pin, m.ret, None, result.ok)
    /\ UNCHANGED <<now, pins, relay_names, heat_vars,
                   update_vars>>

StopTwiceNext ==
    \/ LiveNext
    \/ \E pin \in LivePins : StopTimerAgain(pin)

StopTwiceSpec == Init /\ [][StopTwiceNext]_vars

\* stop_all_timers while the heating loop that boot started is running
StopHeatNext ==
    \/ LiveNext
    \/ \E enabled \in BOOLEAN : SetHeatingEnabled(enabled)
    \/ HeatRun
    \/ HeatReadDone
    \/ StopAllTimers

StopHeatSpec == Init /\ [][StopHeatNext]_vars

\* Exposures that last two clock steps, so that get_timer_status can be
\* asked while part of the duration has passed and part is left
LongDurations == {2}

StatusNext ==
    \/ Tick
    \/ \E t \in 1..MaxStarts : TimerDue(t)
    \/ RunNext
    \/ \E pin \in LivePins, d \in LongDurations, scheduled \in BOOLEAN :
          StartTimer(pin, d, scheduled)
    \/ \E pin \in LivePins : StopTimer(pin)

StatusSpec == Init /\ [][StatusNext]_vars

\* Exposure timers started on the heating pin, as GET /timer?gpio=16 does
\* (the handler accepts every pin of RELAY_PINS), next to the heating loop
SharedPinNext ==
    \/ Tick
    \/ \E t \in 1..MaxStarts : TimerDue(t)
    \/ RunNext
    \/ \E d \in Durations, scheduled \in BOOLEAN :
          StartTimer(HEATING_PIN, d, scheduled)
    \/ StopTimer(HEATING_PIN)
    \/ \E enabled \in BOOLEAN : SetHeatingEnabled(enabled)
    \/ HeatRun
    \/ HeatReadDone

SharedPinSpec == Init /\ [][SharedPinNext]_vars

----------------------------------------------------------------------------
(* The GPIO controller on its own: initialize, set_relay_state and cleanup *)
(* in any order, with pin writes that may raise.                           *)

GpioPins == {14, 15}            \* configured pins given to set_relay_state
InvalidPins == {13}             \* a pin that is not in RELAY_PINS
Faults == {{}, {14}, {15}}      \* pins whose write raises during one call

\* GPIOController.__init__ before initialize(): no Pin object exists, the
\* class-level states are False, the level of the pins is not yet driven
GpioInit ==
    /\ now \in InitTicks
    /\ pins = {}
    /\ relay_names = {}
    /\ \E v \in {0, 1} : pin_value = [p \in RELAY_PINS |-> v]
    /\ relay_state = [p \in RELAY_PINS |-> FALSE]
    /\ tasks = << >>
    /\ ready = << >>
    /\ active_timers = [p \in RELAY_PINS |-> NoTimer]
    /\ task_refs = [p \in RELAY_PINS |-> None]
    /\ heating_enabled = FALSE
    /\ last_temperature = None
    /\ target_temperature = DEFAULT_TARGET
    /\ rom_addresses = TRUE
    /\ heat_pc = "start"
    /\ current_version = ZeroVersion
    /\ latest_version = NoVersion
    /\ version_json = NoVersion
    /\ result = Res("init", None, FALSE, None, FALSE)

\* the pins initialize() has stored a Pin object for when the write to
\* failing raises (None: no write raises); RELAY_PINS in ascending order
init_configured(failing) ==
    {p \in RELAY_PINS : failing = None \/ p <= failing}

\* an initialize() that creates the Pin objects and writes nothing
init_written_nothing(failing) == {}

\* the pins initialize() has driven HIGH and stored a name for
init_written(failing) ==
    {p \in RELAY_PINS : failing = None \/ p < failing}

\* GPIOController.initialize
Initialize(failing) ==
    /\ pins' = pins \cup init_configured(failing)
    /\ relay_names' = relay_names \cup init_written(failing)
    /\ pin_value' = [p \in RELAY_PINS |->
                        IF p \in init_written(failing) THEN 1
                        ELSE pin_value[p]]
    /\ result' = Res("initialize", failing, failing = None, None, pins # {})
    /\ UNCHANGED <<now, relay_state, timer_vars, heat_vars,
                   update_vars>>

\* GPIOController.set_relay_state, for any pin number
GpioSetRelayState(pin, state, fault) ==
    /\ LET m == set_relay_state([Cur EXCEPT !.fault = fault], pin, state)
       IN /\ Commit(m)
          /\ result' = Res("set_relay_state", pin, m.ret, None, state)
    /\ UNCHANGED <<now, pins, relay_names, heat_vars,
                   update_vars>>

\* GPIOController.cleanup
GpioCleanup(fault) ==
    /\ LET m == gpio_cleanup([Cur EXCEPT !.fault = fault])
       IN /\ Commit(m)
          /\ result' = Res("gpio_cleanup",
                            IF fault = {} THEN None
                            ELSE CHOOSE p \in fault : TRUE,
                            m.ret, None, FALSE)
    /\ UNCHANGED <<now, pins, relay_names, heat_vars,
                   update_vars>>

GpioNext ==
    \/ \E failing \in {None} \cup GpioPins : Initialize(failing)
    \/ \E pin \in GpioPins \cup InvalidPins, state \in BOOLEAN,
          fault \in Faults : GpioSetRelayState(pin, state, fault)
    \/ \E fault \in Faults : GpioCleanup(fault)

GpioSpec == GpioInit /\ [][GpioNext]_vars

----------------------------------------------------------------------------
(* The threaded Flask server (Raspberry_Server_v3.0.3.py, and the same     *)
(* functions in Raspberry_Server_7.py).  Its state is held in the same     *)
(* variables: tasks are the threads of the process in the order they were  *)
(* started, the request handlers (app.run(threaded=True) gives every       *)
(* request a thread) and the timer threads alike; active_timers is keyed   *)
(* by timer thread; relay_state is RELAY_PINS[pin]["state"], pin_value the *)
(* level GPIO.output wrote, pins the channels that are set up.  No lock is *)
(* taken anywhere, so a step is one access to shared state and the threads *)
(* interleave between any two of them.                                     *)

FLASK_RELAY_PINS == {25, 17, 27, 22}
RelayPinOrder == <<25, 17, 27, 22>>   \* "for pin in RELAY_PINS"
FlaskPins == {25}               \* the pin of the /timer and /relay requests
FlaskDurations == {2}           \* durations, in clock steps
MaxThreads == 4                 \* threads in one behaviour
MaxHandlers == 2                \* requests being handled at the same time
MaxAllRequests == 1             \* /all requests in one behaviour
ThreadIds == 1..MaxThreads

Halted == {"done", "error"}     \* returned, or ended by an exception

FlaskInit ==
    /\ now \in InitTicks
    /\ pins = FLASK_RELAY_PINS
    /\ relay_names = FLASK_RELAY_PINS
    /\ pin_value = [p \in FLASK_RELAY_PINS |-> 1]
    /\ relay_state = [p \in FLASK_RELAY_PINS |-> FALSE]
    /\ tasks = << >>
    /\ ready = << >>
    /\ active_timers = [t \in ThreadIds |-> NoTimer]
    /\ task_refs = [p \in FLASK_RELAY_PINS |-> None]
    /\ heating_enabled = FALSE
    /\ last_temperature = None
    /\ target_temperature = DEFAULT_TARGET
    /\ rom_addresses = TRUE
    /\ heat_pc = "start"
    /\ current_version = ZeroVersion
    /\ latest_version = NoVersion
    /\ version_json = NoVersion
    /\ result = Res("init", None, FALSE, None, FALSE)

\* a thread: what it runs, the pin it is working on, where it is, what is
\* left of its time.sleep (for a /timer handler: the duration it will hand
\* to the thread), the state its set_relay_state call writes, and the
\* locals of stop_timer: the list(active_timers.items()) it iterates, its
\* threads_to_stop and the index k of the running loop; n is the index of
\* the loop over RELAY_PINS.  live is history for the properties: the timer
\* threads of the pin that had not finished their run when stop_timer began.
NewThread(kind, pin, pc, left, state) ==
    [kind |-> kind, pin |-> pin, pc |-> pc, left |-> left, state |-> state,
     items |-> << >>, threads_to_stop |-> << >>, k |-> 0, n |-> 1,
     live |-> {}]

\* cleanup_gpio has returned: app.run is over and the main thread is on its
\* way out, so no request is taken any more.  The handler and timer threads
\* are daemon threads: they go on until the interpreter finalizes.
Exited ==
    \E t \in 1..Len(tasks) :
        tasks[t].kind = "cleanup_gpio" /\ tasks[t].pc = "done"

\* the /timer handlers that have still to start their thread
Reserved ==
    Cardinality({t \in 1..Len(tasks) :
                    /\ tasks[t].kind = "timer_endpoint"
                    /\ tasks[t].pc \notin Halted})

\* the request handlers that have not answered yet
Handling ==
    {t \in 1..Len(tasks) :
        /\ tasks[t].kind \in {"timer_endpoint", "control_relay", "control_all"}
        /\ tasks[t].pc \notin Halted}

\* a request arrives: the bounds leave room for its handler, and for need
\* threads in all
Room(need) ==
    /\ Len(tasks) + Reserved + need <= MaxThreads
    /\ Cardinality(Handling) < MaxHandlers

\* thread_id in active_timers
in_active_timers(t) == active_timers[t].kind = "thread"

\* list(active_timers.items()): the keys in the order they were inserted
items ==
    LET S == {t \in ThreadIds : in_active_timers(t)}
    IN CHOOSE s \in [1..Cardinality(S) -> S] :
          \A i, j \in 1..Cardinality(S) :
              i < j => active_timers[s[i]].order < active_timers[s[j]].order

\* the timer threads of a pin whose run is not over
unfinished(pin) ==
    {t \in 1..Len(tasks) :
        /\ tasks[t].kind = "timer_thread" /\ tasks[t].pin = pin
        /\ tasks[t].pc \in {"register", "output", "state", "sleep"}
        /\ ~(tasks[t].pc \in {"output", "state"} /\ ~tasks[t].state)}

\* what the steps of the Flask server leave alone
FlaskUnchanged ==
    UNCHANGED <<now, relay_names, ready, task_refs, heat_vars, update_vars>>

\* the response of a handler, or the next round of the loop of control_all
after_pin(th) ==
    IF th.kind = "control_all" /\ th.n < Len(RelayPinOrder)
    THEN [th EXCEPT !.n = @ + 1, !.pin = RelayPinOrder[th.n + 1],
                    !.pc = "output"]
    ELSE [th EXCEPT !.pc = "done"]

\* set_relay_state has returned, True or False: what follows in its caller
after_set(th) ==
    IF th.pc \in {"stop_output", "stop_state"}
    THEN [th EXCEPT !.pc = "stop_del"]
    ELSE IF th.kind = "timer_thread"
    THEN [th EXCEPT !.pc = IF th.state THEN "sleep" ELSE "finally_check"]
    ELSE IF th.state THEN after_pin(th)
    ELSE [th EXCEPT !.pc = "snapshot"]

\* the first loop of stop_timer moves on to the next entry, or hands over
\* to the second loop
next_item(th) ==
    IF th.k < Len(th.items) THEN [th EXCEPT !.k = @ + 1, !.pc = "mark_test"]
    ELSE IF th.threads_to_stop = << >> THEN [th EXCEPT !.pc = "stop_return"]
    ELSE [th EXCEPT !.k = 1, !.pc = "stop_check"]

\* the second loop of stop_timer moves on to the next thread_id, or ends
next_stop(th) ==
    IF th.k < Len(th.threads_to_stop)
    THEN [th EXCEPT !.k = @ + 1, !.pc = "stop_check"]
    ELSE [th EXCEPT !.pc = "stop_return"]

\* GET /timer with a valid gpio and duration: start_timer(gpio, duration),
\* which begins with stop_timer(gpio)
timer_endpoint(gpio, duration) ==
    /\ ~Exited /\ Room(2)
    /\ tasks' = Append(tasks, NewThread("timer_endpoint", gpio, "snapshot",
                                        duration, FALSE))
    /\ result' = Res("timer_endpoint", gpio, TRUE, Len(tasks) + 1,
                      relay_state[gpio])
    /\ UNCHANGED <<pins, pin_value, relay_state, active_timers>>
    /\ FlaskUnchanged

\* GET /relay with a valid gpio and state 'on' or 'off':
\* set_relay_state(gpio, state), then stop_timer(gpio) for 'off'
control_relay(gpio, state) ==
    /\ ~Exited /\ Room(1)
    /\ tasks' = Append(tasks, NewThread("control_relay", gpio, "output", 0,
                                        state))
    /\ result' = Res("control_relay", gpio, state, Len(tasks) + 1,
                      relay_state[gpio])
    /\ UNCHANGED <<pins, pin_value, relay_state, active_timers>>
    /\ FlaskUnchanged

\* GET /all with state 'on' or 'off': for every pin of RELAY_PINS
\* set_relay_state(pin, state), then stop_timer(pin) for 'off'
control_all(state) ==
    /\ ~Exited /\ Room(1)
    /\ Cardinality({t \in 1..Len(tasks) : tasks[t].kind = "control_all"})
          < MaxAllRequests
    /\ tasks' = Append(tasks, NewThread("control_all", RelayPinOrder[1],
                                        "output", 0, state))
    /\ result' = Res("control_all", None, state, Len(tasks) + 1, FALSE)
    /\ UNCHANGED <<pins, pin_value, relay_state, active_timers>>
    /\ FlaskUnchanged

\* the main thread leaves app.run: cleanup_gpio() in the finally block.  The
\* handler and timer threads are daemon threads and keep running meanwhile
\* and afterwards.
\* (atexit calls cleanup_gpio once more; its first GPIO.output then raises,
\* the channels being no longer set up, and nothing changes.)
cleanup_gpio ==
    /\ ~Exited /\ Len(tasks) + Reserved + 1 <= MaxThreads
    /\ ~\E t \in 1..Len(tasks) : tasks[t].kind = "cleanup_gpio"
    /\ tasks' = Append(tasks, NewThread("cleanup_gpio", RelayPinOrder[1],
                                        "output", 0, FALSE))
    /\ result' = Res("cleanup_gpio", None, FALSE, Len(tasks) + 1, FALSE)
    /\ UNCHANGED <<pins, pin_value, relay_state, active_timers>>
    /\ FlaskUnchanged

\* GPIO.output(pin, GPIO.LOW if state else GPIO.HIGH): in set_relay_state,
\* called by a handler, by the second loop of stop_timer or by a timer
\* thread (the OFF write of a thread follows the return of its time.sleep),
\* and in the loop of cleanup_gpio.  Once GPIO.cleanup() has released the
\* channels the call raises RuntimeError: set_relay_state catches it and
\* returns False without writing RELAY_PINS[pin]["state"].
GpioOutput(t) ==
    /\ t \in 1..Len(tasks)
    /\ \/ tasks[t].pc \in {"output", "stop_output"}
       \/ tasks[t].pc = "sleep" /\ tasks[t].left = 0
    /\ LET th == tasks[t]
           state == IF th.pc = "sleep" THEN FALSE ELSE th.state
           th1 == [th EXCEPT !.state = state]
       IN IF th.pin \in pins
          THEN /\ pin_value' = [pin_value EXCEPT ![th.pin] =
                                    IF state THEN 0 ELSE 1]
               /\ tasks' = [tasks EXCEPT ![t] =
                     IF th.kind = "cleanup_gpio"
                     THEN IF th.n < Len(RelayPinOrder)
                          THEN [th EXCEPT !.n = @ + 1,
                                          !.pin = RelayPinOrder[th.n + 1]]
                          ELSE [th EXCEPT !.pc = "gpio_cleanup"]
                     ELSE IF th.pc = "stop_output"
                     THEN [th1 EXCEPT !.pc = "stop_state"]
                     ELSE [th1 EXCEPT !.pc = "state"]]
               /\ result' = Res("gpio_output", th.pin, state, t,
                                 relay_state[th.pin])
          ELSE /\ pin_value' = pin_value
               /\ tasks' = [tasks EXCEPT ![t] =
                     IF th.kind = "cleanup_gpio"
                     THEN [th EXCEPT !.pc = "error"]
                     ELSE after_set(th1)]
               /\ result' = Res("gpio_output_error", th.pin, FALSE, t,
                                 relay_state[th.pin])
    /\ UNCHANGED <<pins, relay_state, active_timers>>
    /\ FlaskUnchanged

\* RELAY_PINS[pin]["state"] = state, and what follows the return of
\* set_relay_state in its caller
RelayState(t) ==
    /\ t \in 1..Len(tasks)
    /\ tasks[t].pc \in {"state", "stop_state"}
    /\ LET th == tasks[t]
       IN /\ relay_state' = [relay_state EXCEPT ![th.pin] = th.state]
          /\ tasks' = [tasks EXCEPT ![t] = after_set(th)]
          /\ result' = Res("relay_state", th.pin, th.state, t,
                            relay_state[th.pin])
    /\ UNCHANGED <<pins, pin_value, active_timers>>
    /\ FlaskUnchanged

\* stop_timer: threads_to_stop = [] and list(active_timers.items())
StopSnapshot(t) ==
    /\ t \in 1..Len(tasks)
    /\ tasks[t].pc = "snapshot"
    /\ LET th == [tasks[t] EXCEPT !.items = items,
                                  !.threads_to_stop = << >>,
                                  !.k = 1,
                                  !.live = unfinished(tasks[t].pin)]
       IN /\ tasks' = [tasks EXCEPT ![t] =
                IF items = << >> THEN [th EXCEPT !.pc = "stop_return"]
                ELSE [th EXCEPT !.pc = "mark_test"]]
          /\ result' = Res("snapshot", th.pin, items # << >>, t,
                            relay_state[th.pin])
    /\ UNCHANGED <<pins, pin_value, relay_state, active_timers>>
    /\ FlaskUnchanged

\* stop_timer, first loop: if timer_info["pin"] == pin and
\* timer_info["running"].  timer_info is the dictionary of the entry, which
\* the list still holds when the entry has left active_timers.
MarkTest(t) ==
    /\ t \in 1..Len(tasks)
    /\ tasks[t].pc = "mark_test"
    /\ LET th == tasks[t]
           timer_info == active_timers[th.items[th.k]]
           hit == timer_info.pin = th.pin /\ timer_info.running
       IN /\ tasks' = [tasks EXCEPT ![t] =
                IF hit THEN [th EXCEPT !.pc = "mark_set"] ELSE next_item(th)]
          /\ result' = Res("mark_test", th.pin, hit, t, relay_state[th.pin])
    /\ UNCHANGED <<pins, pin_value, relay_state, active_timers>>
    /\ FlaskUnchanged

\* stop_timer, first loop: timer_info["running"] = False and
\* threads_to_stop.append(thread_id)
MarkSet(t) ==
    /\ t \in 1..Len(tasks)
    /\ tasks[t].pc = "mark_set"
    /\ LET th == tasks[t]
           thread_id == th.items[th.k]
       IN /\ active_timers' = [active_timers EXCEPT
                                  ![thread_id].running = FALSE]
          /\ tasks' = [tasks EXCEPT ![t] =
                next_item([th EXCEPT !.threads_to_stop =
                                         Append(@, thread_id)])]
          /\ result' = Res("mark_set", th.pin, TRUE, t, relay_state[th.pin])
    /\ UNCHANGED <<pins, pin_value, relay_state>>
    /\ FlaskUnchanged

\* stop_timer, second loop: if thread_id in active_timers
StopCheck(t) ==
    /\ t \in 1..Len(tasks)
    /\ tasks[t].pc = "stop_check"
    /\ LET th == tasks[t]
           thread_id == th.threads_to_stop[th.k]
       IN /\ tasks' = [tasks EXCEPT ![t] =
                IF in_active_timers(thread_id)
                THEN [th EXCEPT !.pc = "stop_output", !.state = FALSE]
                ELSE next_stop(th)]
          /\ result' = Res("stop_check", th.pin, in_active_timers(thread_id),
                            t, relay_state[th.pin])
    /\ UNCHANGED <<pins, pin_value, relay_state, active_timers>>
    /\ FlaskUnchanged

\* stop_timer, second loop: del active_timers[thread_id], a KeyError when
\* the timer thread has deleted its entry since the test; the handlers
\* catch it and answer 500
StopDel(t) ==
    /\ t \in 1..Len(tasks)
    /\ tasks[t].pc = "stop_del"
    /\ LET th == tasks[t]
           thread_id == th.threads_to_stop[th.k]
       IN /\ active_timers' =
                IF in_active_timers(thread_id)
                THEN [active_timers EXCEPT ![thread_id].kind = "removed"]
                ELSE active_timers
          /\ tasks' = [tasks EXCEPT ![t] =
                IF in_active_timers(thread_id) THEN next_stop(th)
                ELSE [th EXCEPT !.pc = "error"]]
          /\ result' = Res("stop_del", th.pin, in_active_timers(thread_id),
                            t, relay_state[th.pin])
    /\ UNCHANGED <<pins, pin_value, relay_state>>
    /\ FlaskUnchanged

\* stop_timer: return len(threads_to_stop) > 0, and what follows in the
\* caller: start_timer goes on to start its thread, control_relay answers,
\* control_all takes the next pin
StopReturn(t) ==
    /\ t \in 1..Len(tasks)
    /\ tasks[t].pc = "stop_return"
    /\ LET th == tasks[t]
       IN /\ tasks' = [tasks EXCEPT ![t] =
                IF th.kind = "timer_endpoint"
                THEN [th EXCEPT !.pc = "thread_start"]
                ELSE after_pin(th)]
          /\ result' = Res("stop_timer", th.pin, Len(th.threads_to_stop) > 0,
                            t, relay_state[th.pin])
    /\ UNCHANGED <<pins, pin_value, relay_state, active_timers>>
    /\ FlaskUnchanged

\* start_timer: thread.start(), return True
ThreadStart(t) ==
    /\ t \in 1..Len(tasks)
    /\ tasks[t].pc = "thread_start"
    /\ LET th == tasks[t]
       IN /\ tasks' = Append([tasks EXCEPT ![t].pc = "done"],
                             NewThread("timer_thread", th.pin, "register",
                                       th.left, TRUE))
          /\ result' = Res("start_timer", th.pin, TRUE, Len(tasks) + 1,
                            relay_state[th.pin])
    /\ UNCHANGED <<pins, pin_value, relay_state, active_timers>>
    /\ FlaskUnchanged

\* timer_thread: active_timers[thread_id] = {"pin": pin, "running": True}
ThreadRegister(t) ==
    /\ t \in 1..Len(tasks)
    /\ tasks[t].pc = "register"
    /\ tasks' = [tasks EXCEPT ![t].pc = "output"]
    /\ active_timers' = [active_timers EXCEPT ![t] =
          [kind |-> "thread", pin |-> tasks[t].pin, running |-> TRUE,
           order |-> Cardinality({u \in ThreadIds :
                                     active_timers[u] # NoTimer})]]
    /\ result' = Res("register", tasks[t].pin, TRUE, t,
                      relay_state[tasks[t].pin])
    /\ UNCHANGED <<pins, pin_value, relay_state>>
    /\ FlaskUnchanged

\* one clock step passes for every thread in time.sleep
FlaskTick ==
    /\ \E t \in 1..Len(tasks) : tasks[t].pc = "sleep" /\ tasks[t].left > 0
    /\ tasks' = [t \in 1..Len(tasks) |->
                    IF tasks[t].pc = "sleep" /\ tasks[t].left > 0
                    THEN [tasks[t] EXCEPT !.left = @ - 1]
                    ELSE tasks[t]]
    /\ result' = Res("flask_tick", None, FALSE, None, FALSE)
    /\ UNCHANGED <<pins, pin_value, relay_state, active_timers>>
    /\ FlaskUnchanged

\* timer_thread, finally: if thread_id in active_timers
FinallyCheck(t) ==
    /\ t \in 1..Len(tasks)
    /\ tasks[t].pc = "finally_check"
    /\ tasks' = [tasks EXCEPT ![t].pc =
                    IF in_active_timers(t) THEN "finally_del" ELSE "done"]
    /\ result' = Res("finally_check", tasks[t].pin, in_active_timers(t), t,
                      relay_state[tasks[t].pin])
    /\ UNCHANGED <<pins, pin_value, relay_state, active_timers>>
    /\ FlaskUnchanged

\* timer_thread, finally: del active_timers[thread_id], a KeyError that
\* ends the thread when stop_timer has deleted the entry since the test
FinallyDel(t) ==
    /\ t \in 1..Len(tasks)
    /\ tasks[t].pc = "finally_del"
    /\ tasks' = [tasks EXCEPT ![t].pc =
                    IF in_active_timers(t) THEN "done" ELSE "error"]
    /\ active_timers' =
          IF in_active_timers(t)
          THEN [active_timers EXCEPT ![t].kind = "removed"]
          ELSE active_timers
    /\ result' = Res("finally_del", tasks[t].pin, in_active_timers(t), t,
                      relay_state[tasks[t].pin])
    /\ UNCHANGED <<pins, pin_value, relay_state>>
    /\ FlaskUnchanged

\* cleanup_gpio: GPIO.cleanup() releases every channel, and cleanup_gpio
\* returns
GpioCleanupAll(t) ==
    /\ t \in 1..Len(tasks)
    /\ tasks[t].pc = "gpio_cleanup"
    /\ tasks' = [tasks EXCEPT ![t].pc = "done"]
    /\ pins' = {}
    /\ result' = Res("gpio_cleanup", None, TRUE, t, FALSE)
    /\ UNCHANGED <<pin_value, relay_state, active_timers>>
    /\ FlaskUnchanged

FlaskNext ==
    \/ \E gpio \in FlaskPins, duration \in FlaskDurations :
          timer_endpoint(gpio, duration)
    \/ \E gpio \in FlaskPins, state \in BOOLEAN : control_relay(gpio, state)
    \/ \E state \in BOOLEAN : control_all(state)
    \/ cleanup_gpio
    \/ \E t \in ThreadIds : GpioOutput(t)
    \/ \E t \in ThreadIds : RelayState(t)
    \/ \E t \in ThreadIds : StopSnapshot(t)
    \/ \E t \in ThreadIds : MarkTest(t)
    \/ \E t \in ThreadIds : MarkSet(t)
    \/ \E t \in ThreadIds : StopCheck(t)
    \/ \E t \in ThreadIds : StopDel(t)
    \/ \E t \in ThreadIds : StopReturn(t)
    \/ \E t \in ThreadIds : ThreadStart(t)
    \/ \E t \in ThreadIds : ThreadRegister(t)
    \/ FlaskTick
    \/ \E t \in ThreadIds : FinallyCheck(t)
    \/ \E t \in ThreadIds : FinallyDel(t)
    \/ \E t \in ThreadIds : GpioCleanupAll(t)

FlaskSpec == FlaskInit /\ [][FlaskNext]_vars

----------------------------------------------------------------------------
(* UpdateManager: the version bookkeeping of check_and_download.  A version *)
(* string is the sequence of its dotted numbers ("1.1" is <<1, 1>>); the    *)
(* network and the file system decide how each download and each write     *)
(* ends.                                                                   *)

Versions == {<<1, 0, 0>>, <<1, 0, 1>>, <<1, 1>>, <<1, 1, 0>>, <<2>>}
FILES_TO_UPDATE ==
    {"boot.py", "index.html", "lib/gpio_control.py", "lib/http_server.py",
     "lib/light_sensor.py", "lib/paper_database.py",
     "lib/splitgrade_enhanced.py", "lib/temperature_sensor.py",
     "lib/timer_manager.py", "lib/update_manager.py", "lib/wifi_ap.py",
     "lib/wifi_sta.py"}
Outcomes == {"ok", "download_failed", "commit_failed"}

\* how _save_version ends: the file is written; open() raises OSError and
\* the file is as it was; or the write raises OSError after open(..., 'w')
\* has truncated the file
SaveOutcomes == {"ok", "open_failed", "write_failed"}

\* a version.json that json.load cannot parse
Unreadable == <<0 - 1>>

\* UpdateManager._parse_version: the first three parts, padded with zeros
parse_version(version_str) ==
    [i \in 1..3 |-> IF i <= Len(version_str) THEN version_str[i] ELSE 0]

\* UpdateManager._version_newer: comparison of the parsed tuples
version_newer(remote_version, local_version) ==
    LET r == parse_version(remote_version)
        l == parse_version(local_version)
    IN \/ r[1] > l[1]
       \/ r[1] = l[1] /\ r[2] > l[2]
       \/ r[1] = l[1] /\ r[2] = l[2] /\ r[3] > l[3]

\* UpdateManager._load_version
load_version ==
    IF version_json \in {NoVersion, Unreadable} THEN ZeroVersion
    ELSE version_json

\* the files that were downloaded and committed
updated_files(outcome) == {f \in FILES_TO_UPDATE : outcome[f] = "ok"}

\* Step 4 of check_and_download: `if updated_files:`
save_decided(outcome) == updated_files(outcome) # {}

UpdateInit ==
    /\ now \in InitTicks
    /\ pins = RELAY_PINS
    /\ relay_names = RELAY_PINS
    /\ pin_value = [p \in RELAY_PINS |-> 1]
    /\ relay_state = [p \in RELAY_PINS |-> FALSE]
    /\ tasks = << >>
    /\ ready = << >>
    /\ active_timers = [p \in RELAY_PINS |-> NoTimer]
    /\ task_refs = [p \in RELAY_PINS |-> None]
    /\ heating_enabled = FALSE
    /\ last_temperature = None
    /\ target_temperature = DEFAULT_TARGET
    /\ rom_addresses = TRUE
    /\ heat_pc = "start"
    /\ version_json \in {NoVersion} \cup Versions
    /\ current_version = load_version
    /\ latest_version = NoVersion
    /\ result = Res("init", None, FALSE, None, FALSE)

\* UpdateManager._save_version: version.json after the call
save_version_file(version, save) ==
    CASE save = "ok" -> version
      [] save = "open_failed" -> version_json
      [] save = "write_failed" -> Unreadable

\* UpdateManager.check_and_download.  release is the version of the latest
\* release, or NoVersion when check_latest_release fails; outcome says how
\* the download and the commit of each file end; save says how the write
\* of version.json ends.
CheckAndDownload(release, outcome, save) ==
    /\ IF release = NoVersion
       THEN /\ result' = Res("check_and_download", None, FALSE, 0, FALSE)
            /\ UNCHANGED update_vars
       ELSE IF ~version_newer(release, current_version)
       THEN /\ latest_version' = release
            /\ result' = Res("check_and_download", None, TRUE, 0, FALSE)
            /\ UNCHANGED <<current_version, version_json>>
       ELSE /\ latest_version' = release
            /\ version_json' = IF save_decided(outcome)
                               THEN save_version_file(release, save)
                               ELSE version_json
            /\ current_version' = IF save_decided(outcome) /\ save = "ok"
                                  THEN release ELSE current_version
            /\ result' = Res("check_and_download", None,
                              updated_files(outcome) = FILES_TO_UPDATE,
                              Cardinality(updated_files(outcome)), TRUE)
    /\ UNCHANGED <<now, pins, relay_names, pin_value, relay_state,
                   timer_vars, heat_vars>>

\* the restart after an update: UpdateManager.__init__ loads version.json
Restart ==
    /\ current_version' = load_version
    /\ latest_version' = NoVersion
    /\ result' = Res("restart", None, FALSE, None, FALSE)
    /\ UNCHANGED <<now, pins, relay_names, pin_value, relay_state,
                   timer_vars, heat_vars, version_json>>

UpdateNext ==
    \/ \E release \in {NoVersion} \cup Versions,
          flaky \in [FlakyFiles -> Outcomes], others \in Outcomes,
          save \in SaveOutcomes :
          CheckAndDownload(release,
                           [f \in FILES_TO_UPDATE |->
                               IF f \in FlakyFiles THEN flaky[f] ELSE others],
                           save)
    \/ Restart

UpdateSpec == UpdateInit /\ [][UpdateNext]_vars

----------------------------------------------------------------------------
(* Properties of the exposure scheduler *)

TaskIds == 1..Len(tasks)

SwitchedOn(t) == tasks[t].pc \in {"exposing", "failed"}

\* C1: once an exposure task has ended, however it ended, the relay of its
\* pin is OFF unless a newer task on the same pin has switched it ON.
C1_RelayOffAfterTaskEnds ==
    \A t \in TaskIds :
        tasks[t].pc \in Terminal =>
            \/ relay_state[tasks[t].pin] = FALSE
            \/ \E u \in TaskIds :
                  u > t /\ tasks[u].pin = tasks[t].pin /\ SwitchedOn(u)

\* C2: when a task has switched the relay ON and has not been cancelled,
\* every older task of the pin has finished (its cancellation handler
\* included), and the relay is ON throughout the exposure.
C2_ExposureKeepsRelayOn ==
    \A t \in TaskIds :
        (tasks[t].pc = "exposing" /\ ~tasks[t].cancel) =>
            /\ relay_state[tasks[t].pin] = TRUE
            /\ \A u \in TaskIds :
                  (u < t /\ tasks[u].pin = tasks[t].pin) =>
                      tasks[u].pc \in Terminal

\* the new task replaced a live one, whose cancellation handler has run, and
\* is now in its exposure
C2_Witness ==
    \E t \in TaskIds :
        /\ tasks[t].pc = "exposing" /\ ~tasks[t].cancel
        /\ tasks[t].prev # None
        /\ tasks[tasks[t].prev].pc = "cancelled"
        /\ relay_state[tasks[t].pin] = TRUE

\* C3: on every pin at most one task has not yet finished its body.
C3_OneUnfinishedTaskPerPin ==
    \A p \in RELAY_PINS :
        Cardinality({t \in TaskIds :
                        tasks[t].pin = p /\ tasks[t].pc \notin Terminal}) <= 1

\* C4: a stop_timer that finds a live task has, when it returns, requested
\* the task's cancellation and switched the relay OFF; after a start_timer
\* that replaced a live task the same holds and the replacement has not run.
C4_StopCancelsAndSwitchesOff ==
    [][\A p \in TimerPins : \A t \in TaskIds :
          (tasks[t].pin = p /\ Live(t)) =>
             /\ (result'.op = "stop_timer" /\ result'.pin = p) =>
                   /\ tasks'[t].cancel
                   /\ relay_state'[p] = FALSE
                   /\ result'.ok = TRUE
             /\ (result'.op = "start_timer" /\ result'.pin = p) =>
                   /\ tasks'[t].cancel
                   /\ relay_state'[p] = FALSE
                   /\ tasks'[Len(tasks')].pc = "created"
                   /\ tasks'[Len(tasks')].prev = t]_vars

\* stop_timer has just stopped a task that held the relay ON
C4_Witness ==
    /\ result.op = "stop_timer" /\ result.ok = TRUE
    /\ \E t \in TaskIds :
          /\ tasks[t].pin = result.pin
          /\ tasks[t].pc = "exposing" /\ tasks[t].cancel
          /\ relay_state[tasks[t].pin] = FALSE

\* C7: _task_refs[pin] names the live task of the pin, and a step of a task
\* body changes the entry only to remove the reference to the task itself.
C7_LiveTaskKeepsItsRef ==
    [][/\ \A t \in 1..Len(tasks') :
            (tasks'[t].pc \notin Terminal /\ ~tasks'[t].cancel) =>
                task_refs'[tasks'[t].pin] = t
       /\ \A p \in RELAY_PINS :
            (result'.op = "task" /\ task_refs'[p] # task_refs[p]) =>
                (task_refs[p] = Head(ready) /\ task_refs'[p] = None)]_vars

\* the cleanup of a superseded task has run (it removed the new task's
\* active_timers record) and the reference to the new task is intact
C7_Witness ==
    \E t \in TaskIds :
        /\ Live(t) /\ tasks[t].pc = "wait_start"
        /\ tasks[t].prev # None
        /\ tasks[tasks[t].prev].pc = "cancelled"
        /\ active_timers[tasks[t].pin] = NoTimer
        /\ task_refs[tasks[t].pin] = t

\* C8: a scheduled start returns start_at = call time + SYNC_DELAY_MS, the
\* relay is OFF while the live task's start_at lies ahead, and the task
\* switched the relay ON no earlier than start_at.
C8_NeverOnBeforeStartAt ==
    /\ (result.op = "start_timer" /\ result.val # None) =>
           result.val = ticks_add(now, SYNC_DELAY_MS)
    /\ \A t \in TaskIds :
          (tasks[t].start_at # None) =>
             /\ (Live(t) /\ ticks_diff(tasks[t].start_at, now) > 0) =>
                    relay_state[tasks[t].pin] = FALSE
             /\ tasks[t].on_at # None =>
                    ticks_diff(tasks[t].on_at, tasks[t].start_at) >= 0

\* a scheduled task whose start_at lay beyond the wrap of the tick counter
\* waited for it and has switched the relay ON
C8_Witness ==
    \E t \in TaskIds :
        /\ tasks[t].start_at # None /\ tasks[t].pc = "exposing"
        /\ tasks[t].start_at < SYNC_DELAY_MS
        /\ tasks[t].on_at # None
        /\ relay_state[tasks[t].pin] = TRUE

\* C9: a task with a numeric duration whose cancellation is never requested
\* ends as done: every task ends or has its cancellation requested, and a
\* task with a numeric duration does not fail while no cancellation is
\* requested.  The step that ends it as done finds the relay ON at least
\* duration_ms after the task switched it ON, switches it OFF and removes
\* the pin from active_timers and _task_refs.
C9_UncancelledTaskCompletes ==
    /\ <>[](\A t \in TaskIds : tasks[t].cancel \/ tasks[t].pc \in Terminal)
    /\ [][\A t \in TaskIds :
            (tasks[t].dur \in Durations /\ ~tasks[t].cancel) =>
                tasks'[t].pc # "failed"]_vars
    /\ [][\A t \in TaskIds :
            (tasks[t].pc # "done" /\ tasks'[t].pc = "done") =>
                /\ tasks[t].pc = "exposing" /\ ~tasks[t].cancel
                /\ relay_state[tasks[t].pin] = TRUE
                /\ ticks_diff(now, tasks[t].on_at) >= duration_ms(tasks[t].dur)
                /\ relay_state'[tasks[t].pin] = FALSE
                /\ active_timers'[tasks[t].pin] = NoTimer
                /\ task_refs'[tasks[t].pin] = None]_vars

\* a task has just completed and its pin is idle again
C9_Witness ==
    /\ result.op = "task"
    /\ tasks[result.val].pc = "done"
    /\ relay_state[result.pin] = FALSE
    /\ active_timers[result.pin] = NoTimer
    /\ task_refs[result.pin] = None

----------------------------------------------------------------------------
(* Properties of the heating controller *)

\* C5: while heating_enabled is False no step of the heating loop changes
\* the heating relay.
C5_LoopLeavesRelayWhileDisabled ==
    [][(~heating_enabled /\ result'.op \in {"heat_loop", "heat_read"}) =>
          /\ relay_state'[HEATING_PIN] = relay_state[HEATING_PIN]
          /\ pin_value'[HEATING_PIN] = pin_value[HEATING_PIN]]_vars

\* C6: when set_heating_enabled(False) returns, heating_enabled is False,
\* the heating relay is OFF and last_temperature is None.
C6_DisableIsSynchronous ==
    [][(result'.op = "set_heating_enabled" /\ result'.ok = FALSE) =>
          /\ heating_enabled' = FALSE
          /\ relay_state'[HEATING_PIN] = FALSE
          /\ pin_value'[HEATING_PIN] = 1
          /\ last_temperature' = None]_vars

\* heating was disabled while the heating relay was ON
C6_Witness ==
    /\ result.op = "set_heating_enabled" /\ result.ok = FALSE
    /\ result.before = TRUE
    /\ ~heating_enabled
    /\ relay_state[HEATING_PIN] = FALSE

\* C10: the step of the heating loop in which a read has failed leaves the
\* heating relay OFF.
C10_FailedReadSwitchesOff ==
    (result.op = "heat_read" /\ result.val = None) =>
        /\ relay_state[HEATING_PIN] = FALSE
        /\ pin_value[HEATING_PIN] = 1
        /\ last_temperature = None

\* a read failed while heating was enabled and the heater was ON
C10_Witness ==
    /\ result.op = "heat_read" /\ result.val = None
    /\ result.before = TRUE
    /\ heating_enabled
    /\ relay_state[HEATING_PIN] = FALSE

----------------------------------------------------------------------------
(* Properties of stop_all_timers and shutdown *)

\* C12: when stop_all_timers returns, no exposure task is live, active_timers
\* and _task_refs are empty, and the relay of every pin that had a live task
\* has been written OFF.
C12_StopAllStopsEverything ==
    [][result'.op = "stop_all_timers" =>
          /\ \A t \in TaskIds :
                /\ tasks'[t].pc \in Terminal \/ tasks'[t].cancel
                /\ Live(t) => /\ tasks'[t].cancel
                              /\ relay_state'[tasks[t].pin] = FALSE
                              /\ pin_value'[tasks[t].pin] = 1
          /\ \A p \in RELAY_PINS :
                active_timers'[p] = NoTimer /\ task_refs'[p] = None]_vars

\* stop_all_timers has stopped live tasks on two pins, one of them in its
\* exposure
C12_Witness ==
    /\ result.op = "stop_all_timers"
    /\ \E t, u \in TaskIds :
          /\ tasks[t].pin # tasks[u].pin
          /\ tasks[t].pc = "exposing" /\ tasks[t].cancel
          /\ tasks[u].pc \notin Terminal /\ tasks[u].cancel
    /\ \A p \in RELAY_PINS : relay_state[p] = FALSE

\* C13: after DarkroomTimer.cleanup every relay is OFF (pin HIGH), no
\* exposure task is live and both dictionaries are empty.
C13_ShutdownLeavesAllOff ==
    result.op = "cleanup" =>
        /\ \A p \in RELAY_PINS : relay_state[p] = FALSE /\ pin_value[p] = 1
        /\ \A t \in TaskIds : tasks[t].pc \in Terminal \/ tasks[t].cancel
        /\ \A p \in RELAY_PINS :
              active_timers[p] = NoTimer /\ task_refs[p] = None

\* shutdown came while an exposure held its relay ON and the heater was ON
C13_Witness ==
    /\ result.op = "cleanup" /\ result.before = TRUE
    /\ \E t \in TaskIds : tasks[t].pc = "exposing" /\ tasks[t].cancel
    /\ \A p \in RELAY_PINS : relay_state[p] = FALSE

----------------------------------------------------------------------------
(* Further properties of the exposure scheduler *)

\* C14: stop_timer(pin) returns True exactly when a live task of the pin
\* existed when it was called, and then it has requested that task's
\* cancellation.
C14_StopReturnsWhetherCancelled ==
    [][\A p \in TimerPins :
          (result'.op = "stop_timer" /\ result'.pin = p) =>
             /\ result'.ok <=>
                   \E t \in TaskIds : tasks[t].pin = p /\ Live(t)
             /\ \A t \in TaskIds :
                   (tasks[t].pin = p /\ Live(t)) => tasks'[t].cancel]_vars

\* a second stop_timer found the cancelled task still pending and returned
\* False
C14_Witness ==
    /\ result.op = "stop_timer" /\ result.ok = FALSE
    /\ \E t \in TaskIds :
          /\ tasks[t].pin = result.pin
          /\ tasks[t].pc \notin Terminal /\ tasks[t].cancel

\* C15: stop_timer(pin) called while the pin has no live task returns False
\* and the relay of the pin is OFF when it returns.
C15_StopIdlePinForcesOff ==
    [][\A p \in TimerPins :
          (/\ result'.op = "stop_timer" /\ result'.pin = p
           /\ ~\E t \in TaskIds : tasks[t].pin = p /\ Live(t)) =>
             /\ result'.ok = FALSE
             /\ relay_state'[p] = FALSE
             /\ pin_value'[p] = 1]_vars

\* C16: once the cancellation of a task is requested the task never goes on
\* to switch the relay ON or to complete; the next time the loop runs it, it
\* ends as cancelled, and if its body had started, the handler has written
\* the relay OFF.
C16_CancelledTaskEndsCancelled ==
    [][\A t \in TaskIds :
          (tasks[t].cancel /\ tasks[t].pc \notin Terminal) =>
             /\ tasks'[t].pc \in {tasks[t].pc, "cancelled"}
             /\ (result'.op = "task" /\ result'.val = t) =>
                   /\ tasks'[t].pc = "cancelled"
                   /\ relay_state'[tasks[t].pin] # TRUE
                         \/ relay_state[tasks[t].pin] = TRUE
                   /\ tasks[t].pc # "created" =>
                         /\ relay_state'[tasks[t].pin] = FALSE
                         /\ pin_value'[tasks[t].pin] = 1]_vars

\* the handler and the finally block of a replaced task have just run: the
\* task ended as cancelled, the relay is OFF and the record of the pin is gone
C16_Witness ==
    /\ result.op = "task"
    /\ tasks[result.val].pc = "cancelled"
    /\ relay_state[result.pin] = FALSE
    /\ active_timers[result.pin] = NoTimer
    /\ \E u \in TaskIds : Live(u) /\ tasks[u].prev = result.val

\* C17: get_timer_status(pin) is a scheduled record with the task's start_at
\* and duration_ms while the live task of the pin waits for its start time,
\* a running record while it holds the relay ON, and None when the pin has
\* no live task.
C17_StatusMatchesTask ==
    \A p \in TimerPins :
        /\ \A t \in TaskIds :
              (tasks[t].pin = p /\ Live(t)) =>
                 /\ (tasks[t].pc \in {"created", "wait_start"}
                        /\ tasks[t].start_at # None) =>
                       /\ get_timer_status(p).kind = "scheduled"
                       /\ get_timer_status(p).start_at = tasks[t].start_at
                       /\ get_timer_status(p).duration_ms
                              = duration_ms(tasks[t].dur)
                 /\ tasks[t].pc = "exposing" =>
                       get_timer_status(p).kind = "running"
        /\ (~\E t \in TaskIds : tasks[t].pin = p /\ Live(t)) =>
              get_timer_status(p) = NoStatus

\* C18: start_timer returns at once: the clock has not moved, the new task
\* has not run and the relay was not switched ON; the result carries
\* start_at = ticks_add(now, SYNC_DELAY_MS) for a scheduled start and None
\* otherwise, and sync_delay_ms = SYNC_DELAY_MS in both cases.
C18_StartReturnsAtOnce ==
    [][result'.op = "start_timer" =>
          /\ now' = now
          /\ Len(tasks') = Len(tasks) + 1
          /\ tasks'[Len(tasks')].pc = "created"
          /\ tasks'[Len(tasks')].start_at = result'.val
          /\ relay_state'[result'.pin] => relay_state[result'.pin]
          /\ pin_value'[result'.pin] = 0 => pin_value[result'.pin] = 0
          /\ result'.ok => result'.val = ticks_add(now, SYNC_DELAY_MS)
          /\ ~result'.ok => result'.val = None
          /\ result'.sync_delay_ms = SYNC_DELAY_MS]_vars

\* a scheduled start has just replaced a running exposure: the result
\* carries the start time and the new task has not run
C18_Witness ==
    /\ result.op = "start_timer" /\ result.ok
    /\ result.val = ticks_add(now, SYNC_DELAY_MS)
    /\ result.sync_delay_ms = SYNC_DELAY_MS
    /\ tasks[Len(tasks)].pc = "created"
    /\ tasks[Len(tasks)].prev # None
    /\ relay_state[result.pin] = FALSE

\* C19: start_timer(p), stop_timer(p) and every step of a task of pin p
\* leave the relay, the active_timers and _task_refs entries and the tasks
\* of every other pin as they were.
C19_PinsAreIndependent ==
    [][\A p \in TimerPins :
          (result'.op \in {"start_timer", "stop_timer", "task"}
             /\ result'.pin = p) =>
             /\ \A q \in RELAY_PINS \ {p} :
                   /\ relay_state'[q] = relay_state[q]
                   /\ pin_value'[q] = pin_value[q]
                   /\ active_timers'[q] = active_timers[q]
                   /\ task_refs'[q] = task_refs[q]
             /\ \A t \in TaskIds :
                   tasks[t].pin # p =>
                      /\ tasks'[t] = tasks[t]
                      /\ InQueue(ready', t) <=> InQueue(ready, t)]_vars

\* a task has just failed on one pin while the exposure of another pin goes
\* on with its relay ON and its bookkeeping in place
C19_Witness ==
    /\ result.op = "task"
    /\ tasks[result.val].pc = "failed"
    /\ \E u \in TaskIds :
          /\ tasks[u].pin # result.pin
          /\ tasks[u].pc = "exposing" /\ Live(u)
          /\ relay_state[tasks[u].pin] = TRUE
          /\ active_timers[tasks[u].pin] # NoTimer
          /\ task_refs[tasks[u].pin] = u

----------------------------------------------------------------------------
(* Further properties of the heating controller *)

\* C11: after a successful read of T the loop switches the heating relay ON
\* exactly when T < target - hysteresis and it was OFF, OFF exactly when
\* T >= target and it was ON, and writes nothing in any other case; inside
\* the dead-band the relay keeps its state.
C11_HysteresisCrossings ==
    [][(result'.op = "heat_read" /\ result'.val # None) =>
          LET T == result'.val
              was == relay_state[HEATING_PIN]
              is == relay_state'[HEATING_PIN]
          IN /\ (~was /\ is) <=>
                   (T < target_temperature - HEATING_HYSTERESIS /\ ~was)
             /\ (was /\ ~is) <=> (T >= target_temperature /\ was)
             /\ result'.wrote <=> (is # was)
             /\ pin_value'[HEATING_PIN] = IF is THEN 0 ELSE 1
             /\ last_temperature' = T
             /\ (target_temperature - HEATING_HYSTERESIS <= T
                   /\ T < target_temperature) =>
                   ~result'.wrote /\ is = was]_vars

\* a reading inside the dead-band arrived while the heater was ON, and the
\* heater is still ON
C11_Witness ==
    /\ result.op = "heat_read" /\ result.val # None
    /\ target_temperature - HEATING_HYSTERESIS <= result.val
    /\ result.val < target_temperature
    /\ result.before = TRUE /\ ~result.wrote
    /\ relay_state[HEATING_PIN] = TRUE

\* C20: while heating_enabled is False, a wake-up of the heating loop starts
\* no sensor read: it goes back to its one-second sleep and leaves
\* last_temperature alone.
C20_NoReadWhileDisabled ==
    [][(/\ ~heating_enabled
        /\ heat_pc \in {"start", "sleep1", "sleep15"}
        /\ result'.op \in {"heat_loop", "heat_read"}) =>
          /\ heat_pc' = "sleep1"
          /\ result'.op = "heat_loop"
          /\ last_temperature' = last_temperature
          /\ ~result'.wrote]_vars

\* heating is disabled, the last reading was dropped, and the loop has just
\* woken and gone back to sleep without reading
C20_Witness ==
    /\ result.op = "heat_loop"
    /\ ~heating_enabled
    /\ heat_pc = "sleep1"
    /\ last_temperature = None
    /\ relay_state[HEATING_PIN] = FALSE

\* C21: whenever heating_enabled is False, last_temperature is None.
C21_DisabledMeansNoTemperature ==
    ~heating_enabled => last_temperature = None

\* C22: the heating loop never leaves its while loop, a wake-up with heating
\* enabled always goes on to a sensor read, and from every state in which
\* heating is enabled and the loop has not yet read, the loop reaches a
\* read unless heating is disabled first.
C22_LoopSurvivesToggling ==
    /\ [](heat_pc \in {"start", "sleep1", "sleep15", "convert"})
    /\ [][(/\ heating_enabled
            /\ heat_pc \in {"start", "sleep1", "sleep15"}
            /\ result'.op \in {"heat_loop", "heat_read"}) =>
              \/ heat_pc' = "convert"
              \/ heat_pc' = "sleep15" /\ result'.op = "heat_read"]_vars
    /\ (heating_enabled /\ heat_pc \in {"start", "sleep1"}) ~>
          (~heating_enabled \/ heat_pc \in {"convert", "sleep15"})
    /\ (heating_enabled /\ heat_pc = "convert") ~>
          (~heating_enabled \/ heat_pc = "sleep15")

\* heating was enabled while the loop idled: the loop has gone on to a
\* read, switched the heater ON and waits for its next poll
C22_Witness ==
    /\ heating_enabled
    /\ heat_pc = "sleep15"
    /\ result.op = "heat_read" /\ result.val # None
    /\ result.before = FALSE /\ result.wrote
    /\ relay_state[HEATING_PIN] = TRUE

\* C23: the step in which the cancelled heating loop takes the cancellation
\* ends the loop as cancelled, and, wherever in its try block the loop was
\* suspended, writes the heating relay OFF first.
C23_CancelledLoopSwitchesOff ==
    [][result'.op = "heat_cancelled" =>
          /\ heat_pc' = "cancelled"
          /\ heat_pc \in {"cancel_sleep1", "cancel_sleep15",
                           "cancel_convert"} =>
                /\ result'.wrote
                /\ relay_state'[HEATING_PIN] = FALSE
                /\ pin_value'[HEATING_PIN] = 1]_vars

\* the loop was cancelled while the heater was ON and has switched it OFF
C23_Witness ==
    /\ result.op = "heat_cancelled" /\ result.ok
    /\ result.before = TRUE /\ result.wrote
    /\ heat_pc = "cancelled"
    /\ relay_state[HEATING_PIN] = FALSE

----------------------------------------------------------------------------
(* Properties of the GPIO controller and of the pin assignment *)

\* C24: no exposure task is ever created on the heating pin.
C24_NoExposureOnHeatingPin ==
    \A t \in TaskIds : tasks[t].pin # HEATING_PIN

\* C25: the level of every configured pin is the negation of the state
\* get_relay_state reports for it: ON is LOW, OFF is HIGH.
C25_LevelIsNotState ==
    \A p \in pins : pin_value[p] = IF get_relay_state(p) THEN 0 ELSE 1

\* C26: when cleanup returns, every configured pin other than the one whose
\* write failed is HIGH and its state is False.
C26_CleanupIsBestEffort ==
    [][result'.op = "gpio_cleanup" =>
          \A p \in pins :
              p # result'.pin =>
                 pin_value'[p] = 1 /\ relay_state'[p] = FALSE]_vars

\* C27: nothing writes a relay before initialize() has run; when the first
\* initialize() returns, every pin it has set up is HIGH and its recorded
\* state is False, and when it returns True these are all of RELAY_PINS.
C27_InitializeLeavesAllOff ==
    [][/\ pins' = {} =>
            /\ pin_value' = pin_value
            /\ \A p \in RELAY_PINS : relay_state'[p] = FALSE
       /\ (result'.op = "initialize" /\ pins = {}) =>
            /\ \A p \in relay_names' :
                  pin_value'[p] = 1 /\ get_relay_state(p)' = FALSE
            /\ result'.ok => pins' = RELAY_PINS /\ relay_names' = RELAY_PINS
       ]_vars

\* the first initialize() has returned True after earlier set_relay_state
\* calls were rejected: all four relays are configured and OFF
C27_Witness ==
    /\ result.op = "initialize" /\ result.ok /\ ~result.before
    /\ pins = RELAY_PINS
    /\ \A p \in RELAY_PINS : pin_value[p] = 1 /\ relay_state[p] = FALSE

\* C28: set_relay_state with a pin that is not in RELAY_PINS returns False
\* and changes no level, no recorded state and no Pin object, and
\* get_relay_state returns None for that pin.
C28_InvalidPinIsRejected ==
    [][(result'.op = "set_relay_state" /\ result'.pin \notin RELAY_PINS) =>
          /\ result'.ok = FALSE
          /\ pin_value' = pin_value
          /\ relay_state' = relay_state
          /\ pins' = pins
          /\ get_relay_state(result'.pin) = None]_vars

\* a write to pin 13 was rejected while relay 14 was ON; it still is
C28_Witness ==
    /\ result.op = "set_relay_state" /\ result.pin \notin RELAY_PINS
    /\ result.ok = FALSE /\ result.before = TRUE
    /\ relay_state[14] = TRUE /\ pin_value[14] = 0

\* C29: a step of an exposure task whose relay writes are rejected changes
\* no level and no recorded state and moves the task on as a working write
\* would: into the exposure, or to its terminal state with the pin removed
\* from active_timers and _task_refs.  Every task still reaches a terminal
\* state, for good, and a start_timer after it registers a new task for the
\* pin.
C29_WriteFaultDoesNotStopTask ==
    /\ [][\A t \in TaskIds :
            (result'.op = "task_fault" /\ result'.val = t) =>
               /\ pin_value' = pin_value
               /\ relay_state' = relay_state
               /\ (tasks[t].pc = "exposing" /\ ~tasks[t].cancel) =>
                     tasks'[t].pc = "done"
               /\ (tasks[t].pc = "wait_start" /\ ~tasks[t].cancel
                      /\ tasks[t].dur \in Durations) =>
                     tasks'[t].pc = "exposing"
               /\ tasks[t].cancel => tasks'[t].pc = "cancelled"
               /\ tasks'[t].pc \in Terminal =>
                     /\ task_refs'[tasks[t].pin] # t
                     /\ tasks[t].pc # "created" =>
                           active_timers'[tasks[t].pin] = NoTimer]_vars
    /\ [][result'.op = "start_timer" =>
            /\ task_refs'[result'.pin] = Len(tasks')
            /\ tasks'[Len(tasks')].pc = "created"
            /\ InQueue(ready', Len(tasks'))]_vars
    /\ <>[](\A t \in TaskIds :
               tasks[t].pc \in Terminal /\ task_refs[tasks[t].pin] # t)

\* the write that should have ended the exposure was rejected: the task is
\* done and has released the pin although the relay is still ON
C29_Witness ==
    /\ result.op = "task_fault"
    /\ tasks[result.val].pc = "done"
    /\ relay_state[result.pin] = TRUE
    /\ active_timers[result.pin] = NoTimer
    /\ task_refs[result.pin] = None

\* C30: a scheduled start stores start_at = ticks_add(now, SYNC_DELAY_MS);
\* when the task first runs with ticks_diff(start_at, now) > 0 left it
\* sleeps exactly that long, at most SYNC_DELAY_MS, and otherwise starts the
\* exposure at once; this holds across the wrap of the tick counter.
C30_WaitIsWraparoundSafe ==
    /\ [][(result'.op = "start_timer" /\ result'.ok) =>
            /\ tasks'[Len(tasks')].start_at = ticks_add(now, SYNC_DELAY_MS)
            /\ tasks'[Len(tasks')].start_at \in 0..(TICKS_PERIOD - 1)
            /\ ticks_diff(tasks'[Len(tasks')].start_at, now) = SYNC_DELAY_MS
         ]_vars
    /\ [][\A t \in TaskIds :
            (result'.op = "task" /\ result'.val = t
               /\ tasks[t].pc = "created" /\ ~tasks[t].cancel
               /\ tasks[t].start_at # None) =>
               LET remaining == ticks_diff(tasks[t].start_at, now)
               IN /\ remaining <= SYNC_DELAY_MS
                  /\ remaining > 0 =>
                        /\ tasks'[t].pc = "wait_start"
                        /\ tasks'[t].wake = tasks[t].start_at
                        /\ ticks_diff(tasks'[t].wake, now) = remaining
                        /\ relay_state' = relay_state
                  /\ remaining <= 0 =>
                        tasks'[t].pc \in {"exposing", "failed"}]_vars

\* a task started less than SYNC_DELAY_MS before the wrap of the counter
\* waits for a start time that lies after the wrap
C30_Witness ==
    /\ result.op = "task"
    /\ result.val \in TaskIds
    /\ tasks[result.val].pc = "wait_start"
    /\ tasks[result.val].start_at # None
    /\ tasks[result.val].start_at < SYNC_DELAY_MS
    /\ tasks[result.val].wake = tasks[result.val].start_at
    /\ now > TICKS_PERIOD - SYNC_DELAY_MS

----------------------------------------------------------------------------
(* Cancellation, status and the relay as the scheduler leaves it *)

\* C31: a stop_timer(pin) that directly follows a stop_timer(pin) returns
\* False and changes neither the relay nor active_timers nor _task_refs nor
\* any task.
C31_SecondStopIsNoOp ==
    [][result'.op = "stop_again" =>
          /\ result'.pin = result.pin
          /\ result'.ok = FALSE
          /\ relay_state' = relay_state
          /\ pin_value' = pin_value
          /\ active_timers' = active_timers
          /\ task_refs' = task_refs
          /\ tasks' = tasks
          /\ ready' = ready]_vars

\* the first stop cancelled a running exposure, which has not yet run its
\* handler; the stop that followed found nothing and returned False
C31_Witness ==
    /\ result.op = "stop_again" /\ result.ok = FALSE
    /\ result.before = TRUE
    /\ \E t \in TaskIds :
          /\ tasks[t].pin = result.pin
          /\ tasks[t].cancel /\ tasks[t].pc = "exposing"
    /\ relay_state[result.pin] = FALSE
    /\ active_timers[result.pin] = NoTimer
    /\ task_refs[result.pin] = None

\* C32: a step of a task whose cancellation was requested never switches
\* the relay ON and never completes the exposure.  While a task is in its
\* exposure and not cancelled, the relay of its pin goes OFF only by that
\* task completing or by a stop_timer or start_timer for the pin: the
\* deadline of a task it replaced switches nothing.
C32_SupersededDeadlineHasNoEffect ==
    /\ [][\A t \in TaskIds :
            (tasks[t].cancel /\ result'.op = "task" /\ result'.val = t) =>
               /\ relay_state[tasks[t].pin] = FALSE =>
                     relay_state'[tasks[t].pin] = FALSE
               /\ tasks'[t].pc \notin {"exposing", "done"}
               /\ ~InQueue(ready', t)]_vars
    /\ [][\A u \in TaskIds :
            (/\ tasks[u].pc = "exposing" /\ ~tasks[u].cancel
             /\ relay_state[tasks[u].pin] = TRUE
             /\ relay_state'[tasks[u].pin] = FALSE) =>
               \/ /\ result'.op = "task" /\ result'.val = u
                  /\ tasks'[u].pc = "done"
                  /\ ticks_diff(now, tasks[u].on_at) >=
                        duration_ms(tasks[u].dur)
               \/ /\ result'.op \in {"stop_timer", "start_timer"}
                  /\ result'.pin = tasks[u].pin
                  /\ tasks'[u].cancel]_vars

\* a scheduled replacement is late in its exposure with the relay ON: the
\* task it replaced was started more than that task's duration ago
C32_Witness ==
    \E u \in TaskIds :
        /\ tasks[u].pc = "exposing" /\ ~tasks[u].cancel
        /\ tasks[u].start_at # None
        /\ tasks[u].prev # None
        /\ tasks[tasks[u].prev].pc = "cancelled"
        /\ ticks_diff(now, tasks[u].start_at) + SYNC_DELAY_MS >=
              duration_ms(tasks[u].dur)
        /\ ticks_diff(now, tasks[u].on_at) < duration_ms(tasks[u].dur)
        /\ relay_state[tasks[u].pin] = TRUE

\* C33: when stop_all_timers returns, the heating loop has been cancelled.
C33_StopAllCancelsHeating ==
    [][result'.op = "stop_all_timers" =>
          heat_pc' \notin {"start", "sleep1", "sleep15", "convert"}]_vars

\* C34: while a task is in its exposure and not cancelled, get_timer_status
\* of its pin is a running record whose elapsed_ms is the tick difference
\* between now and the moment the task switched the relay ON, whose
\* remaining_ms is never negative, and elapsed_ms + remaining_ms =
\* duration_ms as long as elapsed_ms <= duration_ms.
C34_StatusCountsFromRelayOn ==
    \A t \in TaskIds :
        (tasks[t].pc = "exposing" /\ ~tasks[t].cancel) =>
            LET st == get_timer_status(tasks[t].pin)
            IN /\ st.kind = "running"
               /\ st.duration_ms = duration_ms(tasks[t].dur)
               /\ st.elapsed_ms = ticks_diff(now, tasks[t].on_at)
               /\ st.elapsed_ms >= 0
               /\ st.remaining_ms >= 0
               /\ st.elapsed_ms <= st.duration_ms =>
                     st.elapsed_ms + st.remaining_ms = st.duration_ms
               /\ st.elapsed_ms > st.duration_ms => st.remaining_ms = 0

\* an exposure began before the wrap of the tick counter and is asked for
\* its status after the wrap, part of the duration still left
C34_Witness ==
    \E t \in TaskIds :
        /\ tasks[t].pc = "exposing" /\ ~tasks[t].cancel
        /\ now < tasks[t].on_at
        /\ get_timer_status(tasks[t].pin).kind = "running"
        /\ get_timer_status(tasks[t].pin).elapsed_ms > 0
        /\ get_timer_status(tasks[t].pin).remaining_ms > 0

\* C35: on a pin that only the exposure scheduler writes, the relay is ON
\* only while a task of the pin that is not cancelled is in its exposure
\* and active_timers records the pin as running.
C35_OnOnlyDuringExposure ==
    \A p \in TimerPins :
        relay_state[p] = TRUE =>
            /\ \E t \in TaskIds :
                  /\ tasks[t].pin = p
                  /\ tasks[t].pc = "exposing" /\ ~tasks[t].cancel
            /\ active_timers[p].kind = "running"

----------------------------------------------------------------------------
(* Properties of the threaded Flask server *)

\* a stop_timer has marked the entry of timer thread t not running
Stopped(t) == active_timers[t] # NoTimer /\ ~active_timers[t].running

\* a newer timer of the same pin is in its run: relay ON, time.sleep not over
NewerInRun(t) ==
    \E u \in 1..Len(tasks) :
        /\ u > t
        /\ tasks[u].kind = "timer_thread" /\ tasks[u].pin = tasks[t].pin
        /\ tasks[u].pc = "sleep" /\ tasks[u].left > 0

\* C36: a timer thread whose timer was stopped or superseded writes the
\* relay no more: in particular no thread switches the relay OFF while a
\* newer timer of the pin is in its run.
C36_SupersededThreadIsSilent ==
    [][\A t \in 1..Len(tasks) :
          (/\ result'.op = "gpio_output" /\ result'.val = t
           /\ tasks[t].kind = "timer_thread") =>
             /\ ~Stopped(t)
             /\ ~NewerInRun(t)]_vars

\* C37: a stop_timer(pin) that begins while a timer started on the pin has
\* not finished its run finds it, returns True and leaves the relay OFF, and
\* the thread of a stopped timer does not switch the relay ON afterwards.
C37_StopFindsStartedTimer ==
    [][/\ \A s \in 1..Len(tasks) :
            (/\ result'.op = "stop_timer" /\ result'.val = s
             /\ tasks[s].live # {}) =>
                /\ result'.ok
                /\ tasks[s].live \subseteq
                      {tasks[s].threads_to_stop[i] :
                          i \in 1..Len(tasks[s].threads_to_stop)}
                /\ relay_state'[result'.pin] = FALSE
                /\ pin_value'[result'.pin] = 1
       /\ \A t \in 1..Len(tasks) :
            (/\ result'.op = "gpio_output" /\ result'.val = t
             /\ result'.ok /\ tasks[t].kind = "timer_thread") =>
                ~Stopped(t)]_vars

----------------------------------------------------------------------------
(* Properties of the update manager *)

\* C38: check_and_download makes the latest release the current version
\* only when every file of FILES_TO_UPDATE was downloaded and committed;
\* after a partial update current_version and version.json are unchanged
\* and the release is still newer than the current version.
C38_VersionOnlyForCompleteUpdate ==
    [][(result'.op = "check_and_download" /\ result'.before) =>
          /\ (current_version' # current_version
                 \/ version_json' # version_json) =>
                 result'.val = Cardinality(FILES_TO_UPDATE)
          /\ result'.val < Cardinality(FILES_TO_UPDATE) =>
                 /\ current_version' = current_version
                 /\ version_json' = version_json
                 /\ version_newer(latest_version', current_version')]_vars

====
